---- MODULE Spec2Model ----
(***************************************************************************)
(* Model of the tree-status tool (tools/tree-status/src/main.rs): the gap  *)
(* detector and range builder, the check/fix decision, the paginated       *)
(* signature search, the repair pipeline and the show-tree collector; the  *)
(* on-chain counter read, the audit workers, the leaf cross-check, the     *)
(* leaf index of a change log and the loop of main over a file of trees;   *)
(* and of the transaction listener of the ingester                         *)
(* (nft_ingester/src/main.rs).                                             *)
(*                                                                         *)
(* Each part has a specification of its own (SpecRanges, SpecFix,          *)
(* SpecCollector, SpecSigs, SpecPipe, SpecChain, SpecAudit, SpecLeafs,     *)
(* SpecPath, SpecMain, SpecParse, SpecInstruction, SpecIngest);            *)
(* SpecPipeLive and SpecAuditLive add fairness, SpecWorkers joins the      *)
(* behaviours of SpecPipe and SpecAudit, SpecTool those of the commands. A *)
(* specification pins the variables of the other parts to their idle       *)
(* values.                                                                 *)
(***************************************************************************)
EXTENDS Integers, Sequences, FiniteSets, TLC

VARIABLES
    \* build_seq_ranges
    seqs,            \* the argument: the missing sequence numbers, ascending
    ranges,          \* the local `ranges` after the contiguity pass
    joined_ranges,   \* the returned vector
    rstage,          \* "start" | "done"
    \* check_tree / fix_tree
    command,         \* "check_tree" | "fix_tree"
    chain_seq,       \* the sequence counter in the tree's on-chain account
    cl_audits,       \* the index: number of change records per sequence number
    fstage,          \* "start" | "done"
    fresult,         \* how the command ended
    freport,         \* the log lines the command wrote
    fmissing,        \* the list get_missing_seq returned
    fprinted,        \* check_tree: the ranges it logged
    fdriven,         \* fix_tree: find_and_forward_txns_for_missing_seqs was called
    \* read_tree (show-tree): the collector
    results,         \* the ids of the results the workers send
    print_rx,        \* the ids sent and not yet received, in any order
    arrived,         \* the ids in the order the collector received them
    map,             \* the local `map`: the ids it buffers
    next_id,         \* the local `next_id`
    printed,         \* the ids print_seqs was called with, in order
    cstage,          \* "recv" | "done"
    \* find_signatures_for_missing_seq_range
    ledger_len,      \* the tree's signature history: signatures 1 (oldest) ..
                     \* ledger_len (newest); signature s applied sequence s
    indexed,         \* the sequence numbers that have a cl_audits record
    range,           \* the argument (start, end)
    before,          \* the local `before`: <<>> (None) or <<signature>>
    until,           \* the local `until`:  <<>> (None) or <<signature>>
    before0,         \* the value `before` was initialised with
    sender,          \* the signatures sent on the channel, in order
    pages,           \* the pages get_signatures_for_address returned
    sstage,          \* "bounds" | "paging" | "done"
    sresult,         \* "none" | "Ok" | "Err"
    \* find_and_forward_txns_for_missing_seqs: the repair pipeline
    p_seqs,          \* the argument `seqs`
    pstage,          \* "init" | "running" | "done"
    presult,         \* "none" | "Ok" | "Err" | "Panic"
    p_todo,          \* producer: the ranges it has still to send
    r_open,          \* producer: r_sender is not dropped yet
    r_queue,         \* the ranges channel
    s_queue,         \* the signatures channel
    res,             \* per signature resolver: pc, range, before, until
    fet,             \* per fetch-and-forward worker: pc, sig, tx
    messenger_lock,  \* <<>> or <<the worker that holds the messenger>>
    stream,          \* the send calls made on TRANSACTION_STREAM, in order
    handled,         \* per signature pulled: how send_txn ended
    resolved,        \* per range pulled: how the search ended
    \* get_onchain_tree_seq
    account,         \* the RPC's answer: <<>> (no account) or <<its data>>
    gstage,          \* "start" | "done"
    gresult,         \* how the call ended: kind "Ok" | "Err" | "Panic"
    \* read_tree_start and read_tree: the audit of one tree
    a_len,           \* the tree's history: signatures 1 .. a_len
    a_pulled,        \* how many of them rx_sig has yielded
    sig_id,          \* the shared counter `sig_id`
    aw,              \* per worker future: pc, id, sig
    rx_sig_lock,     \* <<>> or <<the worker that holds the rx_sig mutex>>
    a_tx,            \* the channel tx -> print_rx: the ids sent, in order
    a_map,           \* the collector's `map`
    a_next_id,       \* the collector's `next_id`
    a_printed,       \* the ids print_seqs was called with, in order
    a_coll,          \* the collector: "recv" | "done"
    a_stage,         \* "running" | "done"
    a_result,        \* "none" | "Ok" | "Err"
    a_failure,       \* what made a worker return Err, "none" if nothing did
    a_claimed,       \* per signature pulled: the id and the worker it got
    \* check_tree_leafs: the collector and the cross-check
    leaf_of,         \* per on-chain sequence number: its change log's leaf
    leafs_db,        \* the rows of the database query: leaf_idx -> seq
    output,          \* an output file is configured
    leafs_rx,        \* the signatures whose result has not arrived yet
    l_arrived,       \* the signatures in the order their results arrived
    leafs,           \* the local `leafs`: leaf_idx -> <<signature, seq>>
    l_stage,         \* "collect" | "done"
    l_result,        \* "none" | "Ok" | "Err"
    l_reports,       \* the error! lines written: leaf index and kind
    l_written,       \* the signatures written to the output
    \* parse_tx_sequence: the leaf of one change log
    path_len,        \* cl_data.path.len()
    node_index,      \* cl_data.path[0].index, 0 when the path is empty
    leaf,            \* the MaybeLeafNode: <<>> or <<leaf index>>
    hstage,          \* "start" | "done"
    \* main: the commands over a list of trees
    m_command,       \* "check-trees" | "check-trees-leafs" | "show-trees"
    m_lines,         \* the lines of the file: "tree" or "unparseable"
    m_next,          \* the line the loop is at
    m_processed,     \* the lines whose tree was processed, with the outcome
    m_stage,         \* "loop" | "done"
    m_result,        \* "none" | "Ok" | "Err" | "Panic"
    \* parse_tx_sequence
    transaction,     \* the argument `tx`: its status and inner instructions
    seq_updates,     \* the value returned: the map, or the error
    xstage,          \* "start" | "done"
    \* nft_ingester: process_instruction
    keys,            \* the account keys of the transaction
    ix_accounts,     \* the account indexes of the instruction
    bundle,          \* how the call ended, and the keys of the bundle
    istage,          \* "start" | "done"
    \* nft_ingester: one turn of the transaction listener
    recv_data,       \* the messages of the stream that recv returns
    txn_ids,         \* the `ids` handle_transaction returns
    acked,           \* the ack_msg calls: the ids of each and its result
    tstage           \* "recv" | "recv failed" | "handled" | "done"

rangeVars == <<seqs, ranges, joined_ranges, rstage>>
fixVars == <<command, chain_seq, cl_audits, fstage, fresult, freport,
             fmissing, fprinted, fdriven>>

collVars == <<results, print_rx, arrived, map, next_id, printed, cstage>>

ledgerVars == <<ledger_len, indexed>>
sigVars == <<range, before, until, before0, sender, pages, sstage, sresult>>
pipeVars == <<p_seqs, pstage, presult, p_todo, r_open, r_queue, s_queue, res,
              fet, messenger_lock, stream, handled, resolved>>

chainVars == <<account, gstage, gresult>>
auditVars == <<a_len, a_pulled, sig_id, aw, rx_sig_lock, a_tx, a_map,
               a_next_id, a_printed, a_coll, a_stage, a_result, a_failure,
               a_claimed>>
leafVars == <<leaf_of, leafs_db, output, leafs_rx, l_arrived, leafs, l_stage,
              l_result, l_reports, l_written>>
pathVars == <<path_len, node_index, leaf, hstage>>
mainVars == <<m_command, m_lines, m_next, m_processed, m_stage, m_result>>

\* The repair side and the audit side of the tool.
coreVars == <<rangeVars, fixVars, collVars, ledgerVars, sigVars, pipeVars>>
parseVars == <<transaction, seq_updates, xstage>>
instrVars == <<keys, ix_accounts, bundle, istage>>
ingestVars == <<recv_data, txn_ids, acked, tstage>>
ingesterVars == <<instrVars, ingestVars>>
restVars == <<chainVars, auditVars, leafVars, pathVars, mainVars, parseVars,
              ingesterVars>>

vars == <<coreVars, restVars>>

(***************************************************************************)
(* Bounds of the model.                                                    *)
(***************************************************************************)
\* Sequence numbers handed to build_seq_ranges are drawn from 1..MaxSeq.
MaxSeq == 15
\* check_tree / fix_tree: sequence numbers on chain and in the index are
\* drawn from 0..MaxTreeSeq, with at most MaxRowsPerSeq records each.
MaxTreeSeq == 4
MaxRowsPerSeq == 2
\* read_tree: the ids of the results are drawn from 0..MaxResults-1.
MaxResults == 5
\* find_signatures_for_missing_seq_range: the history has at most MaxLedger
\* signatures.
MaxLedger == 5
\* `let limit: usize = 1000;` (main.rs 703), scaled down so that a window of
\* the bounded history spans several pages.
limit == 2
\* The repair pipeline: the on-chain sequence counter, and the numbers of
\* signature resolvers and of fetch-and-forward workers.
PipeChainSeq == 13
get_sigs_concurrency == 2
get_txn_concurrency == 2
\* get_onchain_tree_seq: `CONCURRENT_MERKLE_TREE_HEADER_SIZE_V1` (main.rs 737),
\* scaled down, and the largest account data length.
CONCURRENT_MERKLE_TREE_HEADER_SIZE_V1 == 2
MaxAccountLen == 12
\* parse_tx_sequence: the tree heights up to which every leaf position is
\* drawn (above it, the first two, the middle and the last two).
FullHeight == 4
\* check_tree_leafs: the tree's on-chain sequence numbers are 1..MaxLeafSeq.
MaxLeafSeq == 3
\* read_tree_start: the tree's history has at most MaxAuditSigs signatures,
\* and `concurrency` worker futures audit it.
MaxAuditSigs == 4
concurrency == 2
\* main: the file of a multi-tree command has at most MaxTrees lines.
MaxTrees == 3
\* The capacity the channels of the pipeline are compared with; the module
\* has inputs that queue more than this many ranges and signatures.
QueueCapacity == 1

(***************************************************************************)
(* The idle values a specification gives the variables of the other parts. *)
(***************************************************************************)
RangesIdle ==
    /\ seqs = <<>>
    /\ ranges = <<>>
    /\ joined_ranges = <<>>
    /\ rstage = "idle"

FixIdle ==
    /\ command = "none"
    /\ chain_seq = 0
    /\ cl_audits = <<>>
    /\ fstage = "idle"
    /\ fresult = "none"
    /\ freport = {}
    /\ fmissing = <<>>
    /\ fprinted = <<>>
    /\ fdriven = FALSE

CollIdle ==
    /\ results = {}
    /\ print_rx = {}
    /\ arrived = <<>>
    /\ map = {}
    /\ next_id = 0
    /\ printed = <<>>
    /\ cstage = "idle"

LedgerIdle ==
    /\ ledger_len = 0
    /\ indexed = {}

PipeIdle ==
    /\ p_seqs = <<>>
    /\ pstage = "idle"
    /\ presult = "none"
    /\ p_todo = <<>>
    /\ r_open = FALSE
    /\ r_queue = <<>>
    /\ s_queue = <<>>
    /\ res = <<>>
    /\ fet = <<>>
    /\ messenger_lock = <<>>
    /\ stream = <<>>
    /\ handled = {}
    /\ resolved = {}

ChainIdle ==
    /\ account = <<>>
    /\ gstage = "idle"
    /\ gresult = [kind |-> "none", seq |-> 0, why |-> "none"]

AuditIdle ==
    /\ a_len = 0
    /\ a_pulled = 0
    /\ sig_id = 0
    /\ aw = <<>>
    /\ rx_sig_lock = <<>>
    /\ a_tx = <<>>
    /\ a_map = {}
    /\ a_next_id = 0
    /\ a_printed = <<>>
    /\ a_coll = "idle"
    /\ a_stage = "idle"
    /\ a_result = "none"
    /\ a_failure = "none"
    /\ a_claimed = {}

LeafsIdle ==
    /\ leaf_of = <<>>
    /\ leafs_db = <<>>
    /\ output = FALSE
    /\ leafs_rx = {}
    /\ l_arrived = <<>>
    /\ leafs = <<>>
    /\ l_stage = "idle"
    /\ l_result = "none"
    /\ l_reports = {}
    /\ l_written = {}

PathIdle ==
    /\ path_len = 0
    /\ node_index = 0
    /\ leaf = <<>>
    /\ hstage = "idle"

MainIdle ==
    /\ m_command = "none"
    /\ m_lines = <<>>
    /\ m_next = 0
    /\ m_processed = <<>>
    /\ m_stage = "idle"
    /\ m_result = "none"

ParseIdle ==
    /\ transaction = <<>>
    /\ seq_updates = <<>>
    /\ xstage = "idle"

InstrIdle ==
    /\ keys = <<>>
    /\ ix_accounts = <<>>
    /\ bundle = <<>>
    /\ istage = "idle"

IngestIdle ==
    /\ recv_data = <<>>
    /\ txn_ids = <<>>
    /\ acked = <<>>
    /\ tstage = "idle"

IngesterIdle == InstrIdle /\ IngestIdle

SigsIdle ==
    /\ range = <<0, 0>>
    /\ before = <<>>
    /\ until = <<>>
    /\ before0 = <<>>
    /\ sender = <<>>
    /\ pages = <<>>
    /\ sstage = "idle"
    /\ sresult = "none"

CoreIdle ==
    /\ RangesIdle
    /\ FixIdle
    /\ CollIdle
    /\ LedgerIdle
    /\ SigsIdle
    /\ PipeIdle

RestIdle ==
    /\ ChainIdle
    /\ AuditIdle
    /\ LeafsIdle
    /\ PathIdle
    /\ MainIdle
    /\ ParseIdle
    /\ IngesterIdle

(***************************************************************************)
(* Helpers.                                                                *)
(***************************************************************************)
SetMin(S) == CHOOSE x \in S : \A y \in S : x <= y
SetMax(S) == CHOOSE x \in S : \A y \in S : x >= y

RECURSIVE SortedSeq(_)
\* The ascending list of the elements of a finite set of integers.
SortedSeq(S) ==
    IF S = {} THEN <<>>
    ELSE LET m == SetMin(S) IN <<m>> \o SortedSeq(S \ {m})

SeqToSet(s) == {s[i] : i \in 1..Len(s)}

\* The integers a closed range (start, end) covers.
Covered(r) == r[1]..r[2]

(***************************************************************************)
(* build_seq_ranges (main.rs 612-648).                                     *)
(***************************************************************************)
\* `let maximum_join_gap: i32 = 10;`
maximum_join_gap == 10

\* Mutant of IsContiguous: the comparison slipped from == to <=.
IsContiguousLe(current_end, num) == current_end + 1 <= num

\* `if current_end + 1 == num`
IsContiguous(current_end, num) == current_end + 1 = num

RECURSIVE ContiguityLoop(_, _, _, _, _)
\* The loop `for &num in seqs.iter().skip(1)` followed by the final push.
ContiguityLoop(s, i, acc, current_start, current_end) ==
    IF i > Len(s)
    THEN Append(acc, <<current_start, current_end>>)
    ELSE LET num == s[i] IN
         IF IsContiguous(current_end, num)
         THEN ContiguityLoop(s, i + 1, acc, current_start, num)
         ELSE ContiguityLoop(s, i + 1,
                             Append(acc, <<current_start, current_end>>),
                             num, num)

\* The contiguity pass on a non-empty list.
ContiguityPass(s) == ContiguityLoop(s, 2, <<>>, s[1], s[1])

\* Mutant of ShouldJoin: the comparison slipped from >= to >.
ShouldJoinStrict(current_end, start) == current_end + maximum_join_gap > start

\* Mutant of ShouldJoin: the tolerance is one too wide.
ShouldJoinWide(current_end, start) == current_end + maximum_join_gap + 1 >= start

\* `if current_end + maximum_join_gap as i64 >= *start`; the sum stays within
\* i64 for the sequence numbers of the bounds (it overflows only for a
\* current_end above 2^63 - 11).
ShouldJoin(current_end, start) == current_end + maximum_join_gap >= start

RECURSIVE JoinLoop(_, _, _, _, _)
\* The loop `for (start, end) in ranges.iter().skip(1)`, without the final push.
JoinLoop(rs, i, acc, current_start, current_end) ==
    IF i > Len(rs)
    THEN <<acc, current_start, current_end>>
    ELSE LET start == rs[i][1]
             end   == rs[i][2]
         IN  IF ShouldJoin(current_end, start)
             THEN JoinLoop(rs, i + 1, acc, current_start, end)
             ELSE JoinLoop(rs, i + 1,
                           Append(acc, <<current_start, current_end>>),
                           start, end)

\* Mutant of JoinPass: the push after the loop is forgotten.
JoinPassNoLastPush(rs) == JoinLoop(rs, 2, <<>>, rs[1][1], rs[1][2])[1]

\* The join pass on a non-empty list of ranges.
JoinPass(rs) ==
    LET out == JoinLoop(rs, 2, <<>>, rs[1][1], rs[1][2])
    IN  Append(out[1], <<out[2], out[3]>>)

\* The contiguity-pass vector as it stands when build_seq_ranges returns.
RangesOf(s) == IF s = <<>> THEN <<>> ELSE ContiguityPass(s)

\* build_seq_ranges: the early return on an empty input, else both passes.
build_seq_ranges(s) == IF s = <<>> THEN <<>> ELSE JoinPass(ContiguityPass(s))

(***************************************************************************)
(* The index queries of check_tree and fix_tree (main.rs 751-795).         *)
(***************************************************************************)
\* The sequence numbers that have at least one record for the tree.
IndexedSeqs(idx) == {s \in DOMAIN idx : idx[s] > 0}

RECURSIVE SumRows(_, _)
SumRows(idx, S) ==
    IF S = {} THEN 0
    ELSE LET s == CHOOSE x \in S : TRUE IN idx[s] + SumRows(idx, S \ {s})

\* Mutant of CountDistinctSeq: a plain row count, count(seq).
CountRows(idx) == SumRows(idx, DOMAIN idx)

\* Mutant of get_tree_max_seq: an index without any record yields a summary
\* of zeros.
GetTreeMaxSeqZero(idx) ==
    [found |-> TRUE,
     max_seq |-> IF IndexedSeqs(idx) = {} THEN 0 ELSE SetMax(IndexedSeqs(idx)),
     cnt_seq |-> Cardinality(IndexedSeqs(idx))]

\* `count(distinct seq)`
CountDistinctSeq(idx) == Cardinality(IndexedSeqs(idx))

\* get_tree_max_seq: max(seq) and count(distinct seq) over the tree's records;
\* without any record there is no summary to decode.
get_tree_max_seq(idx) ==
    IF IndexedSeqs(idx) = {}
    THEN [found |-> FALSE, max_seq |-> 0, cnt_seq |-> 0]
    ELSE [found |-> TRUE,
          max_seq |-> SetMax(IndexedSeqs(idx)),
          cnt_seq |-> CountDistinctSeq(idx)]

\* get_missing_seq: generate_series(1, max_seq) minus the sequence numbers
\* that have a record.
get_missing_seq(idx, max_seq) ==
    SortedSeq({s \in 1..max_seq : s \notin IndexedSeqs(idx)})

\* The "check tip" match on indexed_seq.max_seq.cmp(&onchain_seq).
TipReport(max_seq, onchain_seq) ==
    IF max_seq < onchain_seq THEN "not fully indexed"
    ELSE IF max_seq = onchain_seq THEN "up-to-date"
    ELSE "indexer ahead of chain"

\* `if indexed_seq.max_seq != indexed_seq.cnt_seq`
HasGaps(indexed_seq) == indexed_seq.max_seq # indexed_seq.cnt_seq

(***************************************************************************)
(* SpecFix: check_tree and fix_tree on every chain counter and index of    *)
(* the bounds. The outcome of each external call is chosen by the action.  *)
(***************************************************************************)
InitFix ==
    /\ RestIdle
    /\ RangesIdle
    /\ CollIdle
    /\ LedgerIdle
    /\ SigsIdle
    /\ PipeIdle
    /\ command \in {"check_tree", "fix_tree"}
    /\ chain_seq \in 0..MaxTreeSeq
    /\ cl_audits \in [0..MaxTreeSeq -> 0..MaxRowsPerSeq]
    /\ fstage = "start"
    /\ fresult = "none"
    /\ freport = {}
    /\ fmissing = <<>>
    /\ fprinted = <<>>
    /\ fdriven = FALSE

\* The command ends with an error before the completeness check.
FixEnds(result, report) ==
    /\ fstage' = "done"
    /\ fresult' = result
    /\ freport' = report
    /\ fmissing' = <<>>
    /\ fprinted' = <<>>
    /\ fdriven' = FALSE

\* Mutant of Repairs: the missing ranges are repaired whatever the command.
RepairsAlways(cmd) == TRUE

\* find_and_forward_txns_for_missing_seqs is called by fix_tree for the
\* missing sequence numbers; check_tree logs their ranges (main.rs 413-417,
\* 468-478).
Repairs(cmd) == cmd = "fix_tree"

\* check_tree (main.rs 372-422). get_onchain_tree_seq ends with the
\* counter, with an error value or with a panic (SpecChain).
CheckTree ==
    /\ fstage = "start"
    /\ command = "check_tree"
    /\ \E chain \in {"Ok", "Err", "Panic"} :
       \E index_ok, missing_ok \in BOOLEAN :
         LET indexed_seq == get_tree_max_seq(cl_audits)
             tip == TipReport(indexed_seq.max_seq, chain_seq)
         IN  IF chain = "Err" THEN FixEnds("ErrChain", {})
             ELSE IF chain = "Panic" THEN FixEnds("PanicChain", {})
             ELSE IF ~index_ok THEN FixEnds("ErrIndexQuery", {})
             ELSE IF ~indexed_seq.found THEN FixEnds("ErrNotIndexed", {})
             ELSE IF ~HasGaps(indexed_seq)
                  THEN FixEnds("Ok", {tip, "no gaps"})
             ELSE IF ~missing_ok THEN FixEnds("ErrMissingQuery", {tip, "gaps"})
             ELSE /\ fstage' = "done"
                  /\ fresult' = "Ok"
                  /\ freport' = {tip, "gaps"}
                  /\ fmissing' = get_missing_seq(cl_audits, chain_seq)
                  /\ fprinted' = build_seq_ranges(fmissing')
                  /\ fdriven' = Repairs(command)
    /\ UNCHANGED <<command, chain_seq, cl_audits>>
    /\ UNCHANGED <<rangeVars, collVars, ledgerVars, sigVars, pipeVars, restVars>>

\* fix_tree (main.rs 424-486). The call of the repair pipeline ends with Ok,
\* with an error (the messenger cannot be set up) or with a panic.
FixTree ==
    /\ fstage = "start"
    /\ command = "fix_tree"
    /\ \E chain \in {"Ok", "Err", "Panic"} :
       \E index_ok, missing_ok \in BOOLEAN :
       \E pipeline \in {"Ok", "ErrPipeline", "Panic"} :
         LET indexed_seq == get_tree_max_seq(cl_audits)
             tip == TipReport(indexed_seq.max_seq, chain_seq)
         IN  IF chain = "Err" THEN FixEnds("ErrChain", {})
             ELSE IF chain = "Panic" THEN FixEnds("PanicChain", {})
             ELSE IF ~index_ok THEN FixEnds("ErrIndexQuery", {})
             ELSE IF ~indexed_seq.found THEN FixEnds("ErrNotIndexed", {})
             ELSE IF ~HasGaps(indexed_seq)
                  THEN FixEnds("Ok", {tip, "no gaps"})
             ELSE IF ~missing_ok THEN FixEnds("ErrMissingQuery", {tip, "gaps"})
             ELSE /\ fstage' = "done"
                  /\ fresult' = pipeline
                  /\ freport' = {tip, "gaps"}
                  /\ fmissing' = get_missing_seq(cl_audits, chain_seq)
                  /\ fprinted' = <<>>
                  /\ fdriven' = Repairs(command)
    /\ UNCHANGED <<command, chain_seq, cl_audits>>
    /\ UNCHANGED <<rangeVars, collVars, ledgerVars, sigVars, pipeVars, restVars>>

NextFix == CheckTree \/ FixTree

SpecFix == InitFix /\ [][NextFix]_vars

(***************************************************************************)
(* The collector of read_tree (main.rs 893-916).                           *)
(***************************************************************************)
RECURSIVE Reverse(_)
Reverse(s) == IF s = <<>> THEN <<>> ELSE Append(Reverse(Tail(s)), Head(s))

\* Mutant of SortedById: the sort is forgotten and the map is walked in
\* another order.
UnsortedById(ids) == Reverse(SortedSeq(ids))

\* `vec.sort_by_key(|(id, _)| *id)` on the entries left in the map.
SortedById(ids) == SortedSeq(ids)

(***************************************************************************)
(* SpecCollector: the collector receives the results of any set of ids in  *)
(* any order, then the channel closes.                                     *)
(***************************************************************************)
InitCollector ==
    /\ RestIdle
    /\ RangesIdle
    /\ FixIdle
    /\ LedgerIdle
    /\ SigsIdle
    /\ PipeIdle
    /\ results \in SUBSET (0..(MaxResults - 1))
    /\ print_rx = results
    /\ arrived = <<>>
    /\ map = {}
    /\ next_id = 0
    /\ printed = <<>>
    /\ cstage = "recv"

\* One turn of `while let Some((id, sig, seqs)) = print_rx.recv().await`:
\* the insert, then the removal and print of next_id when it is buffered.
CollectorRecv ==
    /\ cstage = "recv"
    /\ \E id \in print_rx :
         LET inserted == map \cup {id} IN
         /\ print_rx' = print_rx \ {id}
         /\ arrived' = Append(arrived, id)
         /\ IF next_id \in inserted
            THEN /\ map' = inserted \ {next_id}
                 /\ printed' = Append(printed, next_id)
                 /\ next_id' = next_id + 1
            ELSE /\ map' = inserted
                 /\ UNCHANGED <<printed, next_id>>
    /\ UNCHANGED <<results, cstage>>
    /\ UNCHANGED <<rangeVars, fixVars, ledgerVars, sigVars, pipeVars, restVars>>

\* recv() returns None: the entries left are sorted by id and printed, and
\* the map is consumed.
CollectorFinish ==
    /\ cstage = "recv"
    /\ print_rx = {}
    /\ printed' = printed \o SortedById(map)
    /\ map' = {}
    /\ cstage' = "done"
    /\ UNCHANGED <<results, print_rx, arrived, next_id>>
    /\ UNCHANGED <<rangeVars, fixVars, ledgerVars, sigVars, pipeVars, restVars>>

NextCollector == CollectorRecv \/ CollectorFinish

SpecCollector == InitCollector /\ [][NextCollector]_vars

(***************************************************************************)
(* find_signatures_for_missing_seq_range (main.rs 654-725).                *)
(***************************************************************************)
None == <<>>
Some(x) == <<x>>

\* The signature stored in the record of sequence s (cl_audits.tx).
TxOf(s) == s

\* Mutant of BeforeTxn: the record with the largest seq >= end.
BeforeTxnLargest(idx, end) ==
    LET c == {s \in idx : s >= end}
    IN  IF c = {} THEN <<>> ELSE <<SetMax(c)>>

\* The record with the smallest seq >= end, if any: its signature.
BeforeTxn(idx, end) ==
    LET c == {s \in idx : s >= end}
    IN  IF c = {} THEN None ELSE Some(TxOf(SetMin(c)))

\* Mutant of UntilTxn: the until bound is left out.
UntilTxnAbsent(idx, start) == <<>>

\* The record with the largest seq <= start, if any: its signature.
UntilTxn(idx, start) ==
    LET c == {s \in idx : s <= start}
    IN  IF c = {} THEN None ELSE Some(TxOf(SetMax(c)))

\* The signatures of a history of n signatures strictly older than `b` and
\* strictly newer than `u` (an absent bound does not bound).
Window(n, b, u) ==
    {s \in 1..n : (b = None \/ s < b[1]) /\ (u = None \/ s > u[1])}

\* getSignaturesForAddress(tree, {before, until, limit}): the signatures of
\* the window, newest first, at most lim of them.
GetSignaturesForAddress(n, b, u, lim) ==
    LET w == Window(n, b, u)
        k == IF Cardinality(w) < lim THEN Cardinality(w) ELSE lim
    IN  [i \in 1..k |-> SetMax(w) - i + 1]

\* Mutant of NextBefore: the cursor is set to the first (newest) signature of
\* the page.
NextBeforeNewest(page, b) == IF page = <<>> THEN b ELSE Some(page[1])

\* `before = Some(o)` for every signature of the page in turn: the cursor
\* ends at the last (oldest) one, and stays when the page is empty.
NextBefore(page, b) == IF page = <<>> THEN b ELSE Some(page[Len(page)])

(***************************************************************************)
(* SpecSigs: one call of find_signatures_for_missing_seq_range, on every   *)
(* history, index and range of the bounds.                                 *)
(***************************************************************************)
InitSigs ==
    /\ RestIdle
    /\ RangesIdle
    /\ FixIdle
    /\ CollIdle
    /\ PipeIdle
    /\ ledger_len \in 0..MaxLedger
    /\ indexed \in SUBSET (1..ledger_len)
    /\ range \in {r \in (1..MaxLedger) \X (1..MaxLedger) : r[1] <= r[2]}
    /\ before = None
    /\ until = None
    /\ before0 = None
    /\ sender = <<>>
    /\ pages = <<>>
    /\ sstage = "bounds"
    /\ sresult = "none"

\* The two index queries and the initial bounds (main.rs 664-702); either
\* query may fail.
SigsFindBounds ==
    /\ sstage = "bounds"
    /\ \E queries_ok \in BOOLEAN :
         IF queries_ok
         THEN /\ before' = BeforeTxn(indexed, range[2])
              /\ until' = UntilTxn(indexed, range[1])
              /\ before0' = before'
              /\ sstage' = "paging"
              /\ UNCHANGED sresult
         ELSE /\ sstage' = "done"
              /\ sresult' = "Err"
              /\ UNCHANGED <<before, until, before0>>
    /\ UNCHANGED <<ledger_len, indexed, range, sender, pages>>
    /\ UNCHANGED <<rangeVars, fixVars, collVars, pipeVars, restVars>>

\* One turn of the loop (main.rs 704-722): the page request, which may fail;
\* then every signature of the page is sent and becomes `before`; an empty
\* page ends the loop. The send cannot fail: the caller keeps a receiver of
\* the channel for as long as the search runs (main.rs 502).
SigsPage ==
    /\ sstage = "paging"
    /\ \E rpc_ok \in BOOLEAN :
         LET sigs == GetSignaturesForAddress(ledger_len, before, until, limit)
         IN  IF ~rpc_ok
             THEN /\ sstage' = "done"
                  /\ sresult' = "Err"
                  /\ UNCHANGED <<before, sender, pages>>
             ELSE /\ sender' = sender \o sigs
                  /\ pages' = Append(pages, sigs)
                  /\ before' = NextBefore(sigs, before)
                  /\ IF Len(sigs) = 0
                     THEN sstage' = "done" /\ sresult' = "Ok"
                     ELSE UNCHANGED <<sstage, sresult>>
    /\ UNCHANGED <<ledger_len, indexed, range, until, before0>>
    /\ UNCHANGED <<rangeVars, fixVars, collVars, pipeVars, restVars>>

NextSigs == SigsFindBounds \/ SigsPage

SpecSigs == InitSigs /\ [][NextSigs]_vars

(***************************************************************************)
(* find_and_forward_txns_for_missing_seqs and send_txn (main.rs 488-610).  *)
(***************************************************************************)
Resolvers == 1..get_sigs_concurrency
Fetchers == 1..get_txn_concurrency

\* Mutant of ShouldDrop: `unwrap_or(false)`, a transaction without metadata
\* is not dropped.
ShouldDropFailedOnly(tx) == tx = "failed"

\* `if meta.map(|meta| meta.status.is_err()).unwrap_or(true)`: the
\* transaction failed on-chain or carries no metadata.
ShouldDrop(tx) == tx \in {"failed", "nometa"}

FetcherIdle == [pc |-> "idle", sig |-> 0, tx |-> "none"]

\* Mutant of WorkerAfter: the error of send_txn is logged and the worker
\* goes on.
WorkerAfterSwallow(worker, ok) == FetcherIdle

\* `runtime.block_on(send_txn(..)).unwrap()` in the worker loop: the worker
\* takes its next signature after Ok and panics on Err.
WorkerAfter(worker, ok) ==
    IF ok THEN FetcherIdle ELSE [worker EXCEPT !.pc = "panicked"]

\* `crossbeam::scope(..).unwrap(); anyhow::Ok(())`: the scope is an Err when
\* a thread of it panicked.
ScopeResult(any_panicked) == IF any_panicked THEN "Panic" ELSE "Ok"

ResolverIdle == [pc |-> "idle", range |-> <<0, 0>>, before |-> None, until |-> None]

(***************************************************************************)
(* SpecPipe: one repair invocation on a tree of PipeChainSeq signatures    *)
(* whose index misses at most two sequence numbers (none; the first; the   *)
(* last; the first and the last, two ranges; the last two, one range). The *)
(* outcome of each external call is chosen by the action that makes it.    *)
(***************************************************************************)
PipeMissing ==
    {{}, {1}, {PipeChainSeq}, {1, PipeChainSeq}, {PipeChainSeq - 1, PipeChainSeq}}

InitPipe ==
    /\ RestIdle
    /\ RangesIdle
    /\ FixIdle
    /\ CollIdle
    /\ SigsIdle
    /\ ledger_len = PipeChainSeq
    /\ \E missing \in PipeMissing :
         /\ indexed = (1..PipeChainSeq) \ missing
         /\ p_seqs = SortedSeq(missing)
    /\ pstage = "init"
    /\ presult = "none"
    /\ p_todo = <<>>
    /\ r_open = FALSE
    /\ r_queue = <<>>
    /\ s_queue = <<>>
    /\ res = [w \in Resolvers |-> ResolverIdle]
    /\ fet = [w \in Fetchers |-> FetcherIdle]
    /\ messenger_lock = <<>>
    /\ stream = <<>>
    /\ handled = {}
    /\ resolved = {}

PipeFrame == UNCHANGED <<rangeVars, fixVars, collVars, ledgerVars, sigVars,
                         restVars, p_seqs>>

\* init_redis_messenger, then the scope spawns its threads; the producer
\* starts with build_seq_ranges(seqs) (main.rs 506-518).
PipelineStart ==
    /\ pstage = "init"
    /\ \E messenger_ok \in BOOLEAN :
         IF messenger_ok
         THEN /\ pstage' = "running"
              /\ p_todo' = build_seq_ranges(p_seqs)
              /\ r_open' = TRUE
              /\ UNCHANGED presult
         ELSE /\ pstage' = "done"
              /\ presult' = "Err"
              /\ UNCHANGED <<p_todo, r_open>>
    /\ UNCHANGED <<r_queue, s_queue, res, fet, messenger_lock, stream,
                   handled, resolved>>
    /\ PipeFrame

\* `r_sender.send(range).unwrap()` (main.rs 520-522).
ProducerSend ==
    /\ pstage = "running"
    /\ p_todo # <<>>
    /\ r_queue' = Append(r_queue, Head(p_todo))
    /\ p_todo' = Tail(p_todo)
    /\ UNCHANGED <<pstage, presult, r_open, s_queue, res, fet,
                   messenger_lock, stream, handled, resolved>>
    /\ PipeFrame

\* `drop(r_sender)` (main.rs 523).
ProducerClose ==
    /\ pstage = "running"
    /\ p_todo = <<>>
    /\ r_open
    /\ r_open' = FALSE
    /\ UNCHANGED <<pstage, presult, p_todo, r_queue, s_queue, res, fet,
                   messenger_lock, stream, handled, resolved>>
    /\ PipeFrame

\* Mutant of AfterRecv: the message received stays at the head of the
\* channel.
AfterPeek(queue) == queue

\* The channel after a receive: the message received is removed from it.
AfterRecv(queue) == Tail(queue)

\* A resolver takes the next range of `r_recv.iter()` (main.rs 533).
ResolverTake(w) ==
    /\ pstage = "running"
    /\ res[w].pc = "idle"
    /\ r_queue # <<>>
    /\ res' = [res EXCEPT ![w] = [ResolverIdle EXCEPT !.pc = "bounds",
                                                      !.range = Head(r_queue)]]
    /\ r_queue' = AfterRecv(r_queue)
    /\ UNCHANGED <<pstage, presult, p_todo, r_open, s_queue, fet,
                   messenger_lock, stream, handled, resolved>>
    /\ PipeFrame

\* `r_recv.iter()` ends: the channel is empty and its sender dropped; the
\* thread ends and drops its clone of s_sender.
ResolverExit(w) ==
    /\ pstage = "running"
    /\ res[w].pc = "idle"
    /\ r_queue = <<>>
    /\ ~r_open
    /\ res' = [res EXCEPT ![w].pc = "exited"]
    /\ UNCHANGED <<pstage, presult, p_todo, r_open, r_queue, s_queue, fet,
                   messenger_lock, stream, handled, resolved>>
    /\ PipeFrame

\* Mutant of ResolverAfterError: the error ends the resolver thread.
ResolverAfterErrorExit(worker) == [worker EXCEPT !.pc = "exited"]

\* `Err(err) => { warn!(..) }` inside `for range in r_recv.iter()` (main.rs
\* 539-541): the error is logged and the loop takes its next range.
ResolverAfterError(worker) == ResolverIdle

\* The two index queries of find_signatures_for_missing_seq_range; on an
\* error the worker logs it and takes its next range (main.rs 539-541).
ResolverBounds(w) ==
    /\ pstage = "running"
    /\ res[w].pc = "bounds"
    /\ \E queries_ok \in BOOLEAN :
         IF queries_ok
         THEN /\ res' = [res EXCEPT
                    ![w].pc = "paging",
                    ![w].before = BeforeTxn(indexed, res[w].range[2]),
                    ![w].until = UntilTxn(indexed, res[w].range[1])]
              /\ UNCHANGED resolved
         ELSE /\ res' = [res EXCEPT ![w] = ResolverAfterError(res[w])]
              /\ resolved' = resolved \cup
                    {[range |-> res[w].range, by |-> w, ok |-> FALSE]}
    /\ UNCHANGED <<pstage, presult, p_todo, r_open, r_queue, s_queue, fet,
                   messenger_lock, stream, handled>>
    /\ PipeFrame

\* Mutant of AfterSend: the last message is not sent.
AfterSendButLast(queue, msgs) == queue \o SubSeq(msgs, 1, Len(msgs) - 1)

\* The channel after `sender.send(o)?` for every signature of a page, in
\* the order of the page (main.rs 714-718).
AfterSend(queue, msgs) == queue \o msgs

\* One turn of the paging loop of find_signatures_for_missing_seq_range.
ResolverPage(w) ==
    /\ pstage = "running"
    /\ res[w].pc = "paging"
    /\ \E rpc_ok \in BOOLEAN :
         LET sigs == GetSignaturesForAddress(ledger_len, res[w].before,
                                             res[w].until, limit)
         IN  IF ~rpc_ok
             THEN /\ res' = [res EXCEPT ![w] = ResolverAfterError(res[w])]
                  /\ resolved' = resolved \cup
                        {[range |-> res[w].range, by |-> w, ok |-> FALSE]}
                  /\ UNCHANGED s_queue
             ELSE /\ s_queue' = AfterSend(s_queue, sigs)
                  /\ IF Len(sigs) = 0
                     THEN /\ res' = [res EXCEPT ![w] = ResolverIdle]
                          /\ resolved' = resolved \cup
                                {[range |-> res[w].range, by |-> w, ok |-> TRUE]}
                     ELSE /\ res' = [res EXCEPT
                                ![w].before = NextBefore(sigs, res[w].before)]
                          /\ UNCHANGED resolved
    /\ UNCHANGED <<pstage, presult, p_todo, r_open, r_queue, fet,
                   messenger_lock, stream, handled>>
    /\ PipeFrame

\* A fetch-and-forward worker takes the next signature of `s_recv.iter()`
\* (main.rs 554).
FetcherTake(w) ==
    /\ pstage = "running"
    /\ fet[w].pc = "idle"
    /\ s_queue # <<>>
    /\ fet' = [fet EXCEPT ![w] = [pc |-> "fetch", sig |-> Head(s_queue),
                                  tx |-> "none"]]
    /\ s_queue' = AfterRecv(s_queue)
    /\ UNCHANGED <<pstage, presult, p_todo, r_open, r_queue, res,
                   messenger_lock, stream, handled, resolved>>
    /\ PipeFrame

\* Mutant of SignaturesDisconnected: the scope's own s_sender is never
\* dropped, so the signatures channel never disconnects.
SignaturesNeverDisconnected == FALSE

\* Every sender of the signatures channel is dropped: each resolver thread
\* drops its clone when it ends, and the scope drops its own with
\* `drop(s_sender)` (main.rs 527, 546).
SignaturesDisconnected == \A r \in Resolvers : res[r].pc = "exited"

\* `s_recv.iter()` ends: the channel is empty and disconnected.
FetcherExit(w) ==
    /\ pstage = "running"
    /\ fet[w].pc = "idle"
    /\ s_queue = <<>>
    /\ SignaturesDisconnected
    /\ fet' = [fet EXCEPT ![w].pc = "exited"]
    /\ UNCHANGED <<pstage, presult, p_todo, r_open, r_queue, s_queue, res,
                   messenger_lock, stream, handled, resolved>>
    /\ PipeFrame

\* How send_txn ended for the signature worker w holds.
Handled(w, tx, outcome) ==
    [sig |-> fet[w].sig, tx |-> tx, outcome |-> outcome]

\* send_txn up to the messenger lock (main.rs 584-603): the fetch with its
\* retries, which ends with the transaction or with an error; the drop of a
\* failed or metadata-less transaction; the serialization, which may fail.
FetcherFetch(w) ==
    /\ pstage = "running"
    /\ fet[w].pc = "fetch"
    /\ \E fetch_ok, serialize_ok \in BOOLEAN :
       \E tx \in {"ok", "failed", "nometa"} :
         IF ~fetch_ok
         THEN /\ fet' = [fet EXCEPT ![w] = WorkerAfter(fet[w], FALSE)]
              /\ handled' = handled \cup {Handled(w, "none", "fetch failed")}
         ELSE IF ShouldDrop(tx)
         THEN /\ fet' = [fet EXCEPT ![w] = WorkerAfter(fet[w], TRUE)]
              /\ handled' = handled \cup {Handled(w, tx, "dropped")}
         ELSE IF ~serialize_ok
         THEN /\ fet' = [fet EXCEPT ![w] = WorkerAfter(fet[w], FALSE)]
              /\ handled' = handled \cup {Handled(w, tx, "serialize failed")}
         ELSE /\ fet' = [fet EXCEPT ![w].pc = "lock", ![w].tx = tx]
              /\ UNCHANGED handled
    /\ UNCHANGED <<pstage, presult, p_todo, r_open, r_queue, s_queue, res,
                   messenger_lock, stream, resolved>>
    /\ PipeFrame

\* Mutant of Unlocked: the lock is granted whoever holds it.
UnlockedAlways(lock) == TRUE

\* `Mutex::lock().await` is granted only while no guard of the mutex is
\* alive.
Unlocked(lock) == lock = None

\* `messenger.lock().await` (main.rs 605).
FetcherLock(w) ==
    /\ pstage = "running"
    /\ fet[w].pc = "lock"
    /\ Unlocked(messenger_lock)
    /\ messenger_lock' = <<w>>
    /\ fet' = [fet EXCEPT ![w].pc = "send"]
    /\ UNCHANGED <<pstage, presult, p_todo, r_open, r_queue, s_queue, res,
                   stream, handled, resolved>>
    /\ PipeFrame

\* `locked.send(TRANSACTION_STREAM, bytes).await?` and the release of the
\* lock (main.rs 606-609).
FetcherSend(w) ==
    /\ pstage = "running"
    /\ fet[w].pc = "send"
    /\ \E send_ok \in BOOLEAN :
         /\ stream' = Append(stream, [sig |-> fet[w].sig, ok |-> send_ok])
         /\ handled' = handled \cup
               {Handled(w, fet[w].tx, IF send_ok THEN "sent" ELSE "send failed")}
         /\ fet' = [fet EXCEPT ![w] = WorkerAfter(fet[w], send_ok)]
    /\ messenger_lock' = <<>>
    /\ UNCHANGED <<pstage, presult, p_todo, r_open, r_queue, s_queue, res,
                   resolved>>
    /\ PipeFrame

\* The scope ends when every thread of it has ended (main.rs 562-565).
PipelineJoin ==
    /\ pstage = "running"
    /\ p_todo = <<>>
    /\ ~r_open
    /\ \A r \in Resolvers : res[r].pc = "exited"
    /\ \A f \in Fetchers : fet[f].pc \in {"exited", "panicked"}
    /\ pstage' = "done"
    /\ presult' = ScopeResult(\E f \in Fetchers : fet[f].pc = "panicked")
    /\ UNCHANGED <<p_todo, r_open, r_queue, s_queue, res, fet,
                   messenger_lock, stream, handled, resolved>>
    /\ PipeFrame

NextPipe ==
    \/ PipelineStart
    \/ ProducerSend
    \/ ProducerClose
    \/ \E w \in Resolvers :
          ResolverTake(w) \/ ResolverExit(w) \/ ResolverBounds(w) \/ ResolverPage(w)
    \/ \E w \in Fetchers :
          FetcherTake(w) \/ FetcherExit(w) \/ FetcherFetch(w)
              \/ FetcherLock(w) \/ FetcherSend(w)
    \/ PipelineJoin

SpecPipe == InitPipe /\ [][NextPipe]_vars

\* Every thread of the scope is scheduled and every external call returns,
\* so the invocation does not stop while one of its threads can take a
\* step. This asks less than fairness to each thread does.
PipeFairness == WF_vars(NextPipe)

SpecPipeLive == SpecPipe /\ PipeFairness

(***************************************************************************)
(* get_onchain_tree_seq (main.rs 727-749). The account data is its length, *)
(* what its header bytes hold and the little-endian counter its tree body  *)
(* starts with.                                                            *)
(***************************************************************************)
Headers == {"undecodable", "unsupported", "small", "large"}

\* `merkle_tree_get_size(&header)?`: the size of the tree body for the depth
\* and buffer size of the header, an error for an unsupported pair. A tree
\* body starts with its 8-byte sequence counter.
merkle_tree_get_size(header) ==
    IF header = "small" THEN Some(8)
    ELSE IF header = "large" THEN Some(9)
    ELSE None

GetSeqResult(kind, seq, why) == [kind |-> kind, seq |-> seq, why |-> why]

\* get_onchain_tree_seq: `split_at_mut(mid)` panics when mid is larger than
\* the slice; every `?` returns an error value.
get_onchain_tree_seq(rpc_ok, account_info) ==
    IF ~rpc_ok THEN GetSeqResult("Err", 0, "rpc")
    ELSE IF account_info = None THEN GetSeqResult("Err", 0, "No account found")
    ELSE LET data == account_info[1]
             rest == data.len - CONCURRENT_MERKLE_TREE_HEADER_SIZE_V1
             merkle_tree_size == merkle_tree_get_size(data.header)
         IN  IF data.len < CONCURRENT_MERKLE_TREE_HEADER_SIZE_V1
             THEN GetSeqResult("Panic", 0, "split_at_mut header")
             ELSE IF data.header = "undecodable"
             THEN GetSeqResult("Err", 0, "header")
             ELSE IF merkle_tree_size = None
             THEN GetSeqResult("Err", 0, "merkle_tree_get_size")
             ELSE IF rest < merkle_tree_size[1]
             THEN GetSeqResult("Panic", 0, "split_at_mut tree")
             ELSE GetSeqResult("Ok", data.seq, "")

(***************************************************************************)
(* SpecChain: get_onchain_tree_seq on every account of the bounds.         *)
(***************************************************************************)
InitChain ==
    /\ CoreIdle
    /\ IngesterIdle
    /\ ParseIdle
    /\ AuditIdle
    /\ LeafsIdle
    /\ PathIdle
    /\ MainIdle
    /\ account \in {None} \cup
          {Some([len |-> l, header |-> h, seq |-> s]) :
              l \in 0..MaxAccountLen, h \in Headers, s \in 0..MaxTreeSeq}
    /\ gstage = "start"
    /\ gresult = [kind |-> "none", seq |-> 0, why |-> "none"]

GetOnchainTreeSeq ==
    /\ gstage = "start"
    /\ \E rpc_ok \in BOOLEAN :
         gresult' = get_onchain_tree_seq(rpc_ok, account)
    /\ gstage' = "done"
    /\ UNCHANGED account
    /\ UNCHANGED <<coreVars, ingesterVars, parseVars, auditVars, leafVars,
                   pathVars, mainVars>>

NextChain == GetOnchainTreeSeq

SpecChain == InitChain /\ [][NextChain]_vars

(***************************************************************************)
(* node_idx_to_leaf_idx and the leaf of a change log in parse_tx_sequence  *)
(* (main.rs 1045-1052, 1067-1069).                                         *)
(***************************************************************************)
\* Mutant of node_idx_to_leaf_idx: a product in place of the power.
NodeIdxMinusDouble(index, tree_height) == index - 2 * tree_height

\* `index - 2i64.pow(tree_height)`; no i64 overflow for the heights and the
\* u32 node indices of the model.
node_idx_to_leaf_idx(index, tree_height) == index - 2^tree_height

\* `cl_data.path.get(0).map(|node| LeafNode { index: node_idx_to_leaf_idx(
\* node.index as i64, cl_data.path.len() as u32 - 1) })`: the closure, and
\* with it the subtraction on the length, runs only for a non-empty path.
LeafOf(len, index) ==
    IF len = 0 THEN None ELSE Some(node_idx_to_leaf_idx(index, len - 1))

\* The heights of a concurrent merkle tree.
Heights == 0..30

\* The leaf positions drawn for a tree of height h.
Positions(h) ==
    IF h <= FullHeight THEN 0..(2^h - 1)
    ELSE {0, 1, 2^(h - 1), 2^h - 2, 2^h - 1}

(***************************************************************************)
(* SpecPath: the leaf of one change log, for an empty path and for a path  *)
(* of every height whose first node is a leaf node.                        *)
(***************************************************************************)
InitPath ==
    /\ CoreIdle
    /\ IngesterIdle
    /\ ParseIdle
    /\ ChainIdle
    /\ AuditIdle
    /\ LeafsIdle
    /\ MainIdle
    /\ \/ path_len = 0 /\ node_index = 0
       \/ \E h \in Heights : \E k \in Positions(h) :
             /\ path_len = h + 1
             /\ node_index = 2^h + k
    /\ leaf = None
    /\ hstage = "start"

ParseLeaf ==
    /\ hstage = "start"
    /\ leaf' = LeafOf(path_len, node_index)
    /\ hstage' = "done"
    /\ UNCHANGED <<path_len, node_index>>
    /\ UNCHANGED <<coreVars, ingesterVars, parseVars, chainVars, auditVars,
                   leafVars, mainVars>>

NextPath == ParseLeaf

SpecPath == InitPath /\ [][NextPath]_vars

(***************************************************************************)
(* check_tree_leafs (main.rs 797-877): the collection of the largest       *)
(* sequence number per leaf and the cross-check with the database.         *)
(***************************************************************************)
\* The leaf indexes of the tree.
LeafIndexes == 0..1

\* The transaction that applied sequence number s: two change logs each.
SigOf(s) == (s + 1) \div 2

\* The result a worker sends for signature t: the (seq, leaf) pairs of its
\* change logs, in instruction order.
VecOf(lo, t) ==
    LET pair(s) == <<s, lo[s]>>
        S == {s \in DOMAIN lo : SigOf(s) = t}
    IN  [i \in 1..Cardinality(S) |-> pair(SortedSeq(S)[i])]

\* Mutant of Observe: the entry is overwritten by every observation.
ObserveLast(lf, signature, seq, maybe_leaf) ==
    IF maybe_leaf = None THEN lf
    ELSE [lf EXCEPT ![maybe_leaf[1]] = Some(<<signature, seq>>)]

\* `let entry = leafs.entry(leaf_idx).or_insert((signature, seq));
\*  if entry.1 < seq { *entry = (signature, seq); }` under
\* `if let Some(LeafNode { index: leaf_idx, .. }) = maybe_leaf`.
Observe(lf, signature, seq, maybe_leaf) ==
    IF maybe_leaf = None THEN lf
    ELSE LET leaf_idx == maybe_leaf[1]
             entry == IF lf[leaf_idx] = None THEN <<signature, seq>>
                      ELSE lf[leaf_idx][1]
         IN  [lf EXCEPT ![leaf_idx] =
                 Some(IF entry[2] < seq THEN <<signature, seq>> ELSE entry)]

\* `for (seq, maybe_leaf) in vec.unwrap_or_default()`
RECURSIVE ObserveAll(_, _, _)
ObserveAll(lf, signature, vec) ==
    IF vec = <<>> THEN lf
    ELSE ObserveAll(Observe(lf, signature, vec[1][1], vec[1][2]),
                    signature, Tail(vec))

\* The leaf indexes the database query returned a row for.
Rows(db) == {l \in DOMAIN db : db[l] # None}

\* Mutant of LeafsAfterRows: the entries are looked up, not removed.
LeafsAfterGet(lf, db) == lf

\* `leafs.remove(&leaf_db.leaf_idx)` for every row: what is left in `leafs`
\* for the final loop.
LeafsAfterRows(lf, db) ==
    [l \in DOMAIN lf |-> IF l \in Rows(db) THEN None ELSE lf[l]]

Report(l, kind) == [leaf |-> l, kind |-> kind]

\* The error! lines of the loop over the rows (main.rs 850-865).
RowReports(lf, db) ==
    {Report(l, "invalid seq") :
        l \in {r \in Rows(db) : lf[r] # None /\ db[r][1] # lf[r][1][2]}}
    \cup {Report(l, "not found in blockchain") :
            l \in {r \in Rows(db) : lf[r] = None}}

(***************************************************************************)
(* SpecLeafs: check_tree_leafs on every assignment of leaves to the        *)
(* on-chain sequence numbers and every database answer of the bounds; the  *)
(* results of the workers arrive in any order.                             *)
(***************************************************************************)
InitLeafs ==
    /\ CoreIdle
    /\ IngesterIdle
    /\ ParseIdle
    /\ ChainIdle
    /\ AuditIdle
    /\ PathIdle
    /\ MainIdle
    /\ leaf_of \in [1..MaxLeafSeq -> {None} \cup {Some(l) : l \in LeafIndexes}]
    /\ leafs_db \in [LeafIndexes -> {None} \cup {Some(s) : s \in 1..MaxLeafSeq}]
    /\ output \in BOOLEAN
    /\ leafs_rx = {SigOf(s) : s \in 1..MaxLeafSeq}
    /\ l_arrived = <<>>
    /\ leafs = [l \in LeafIndexes |-> None]
    /\ l_stage = "collect"
    /\ l_result = "none"
    /\ l_reports = {}
    /\ l_written = {}

LeafsFrame ==
    UNCHANGED <<leaf_of, leafs_db, output, coreVars, ingesterVars, parseVars,
                chainVars, auditVars, pathVars, mainVars>>

\* One turn of `while let Some((_id, signature, vec)) = leafs_rx.recv().await`
\* (main.rs 809-822).
LeafsRecv ==
    /\ l_stage = "collect"
    /\ \E t \in leafs_rx :
         /\ leafs' = ObserveAll(leafs, t, VecOf(leaf_of, t))
         /\ leafs_rx' = leafs_rx \ {t}
         /\ l_arrived' = Append(l_arrived, t)
    /\ UNCHANGED <<l_stage, l_result, l_reports, l_written>>
    /\ LeafsFrame

\* A worker of read_tree_start returns an error: try_join drops the
\* collector and check_tree_leafs returns the error (main.rs 806, 874-876).
LeafsWorkerFails ==
    /\ l_stage = "collect"
    /\ leafs_rx # {}
    /\ l_stage' = "done"
    /\ l_result' = "Err"
    /\ UNCHANGED <<leafs_rx, l_arrived, leafs, l_reports, l_written>>
    /\ LeafsFrame

\* The channel is closed: the database query and the two loops of the
\* cross-check (main.rs 824-873). The query may fail; a write to the output
\* may fail, after the error! line of its leaf.
LeafsCrossCheck ==
    /\ l_stage = "collect"
    /\ leafs_rx = {}
    /\ \E query_ok \in BOOLEAN :
         IF ~query_ok
         THEN /\ l_result' = "Err"
              /\ UNCHANGED <<leafs, l_reports, l_written>>
         ELSE LET left == LeafsAfterRows(leafs, leafs_db)
                  L == {l \in DOMAIN left : left[l] # None}
                  not_in_db(S) == {Report(l, "not found in db") : l \in S}
                  writes(S) ==
                      {[leaf |-> l, signature |-> left[l][1][1]] : l \in S}
              IN  /\ leafs' = left
                  /\ \/ /\ l_reports' = RowReports(leafs, leafs_db) \cup not_in_db(L)
                        /\ l_written' = IF output THEN writes(L) ELSE {}
                        /\ l_result' = "Ok"
                     \/ /\ output
                        /\ \E visited \in SUBSET L : \E failed \in visited :
                             /\ l_reports' = RowReports(leafs, leafs_db)
                                                 \cup not_in_db(visited)
                             /\ l_written' = writes(visited \ {failed})
                        /\ l_result' = "Err"
    /\ l_stage' = "done"
    /\ UNCHANGED <<leafs_rx, l_arrived>>
    /\ LeafsFrame

NextLeafs == LeafsRecv \/ LeafsWorkerFails \/ LeafsCrossCheck

SpecLeafs == InitLeafs /\ [][NextLeafs]_vars

(***************************************************************************)
(* read_tree_start and read_tree (main.rs 880-972): the audit of one tree. *)
(* try_join_all and try_join end with the first error of a worker and drop *)
(* the other workers and the collector.                                    *)
(***************************************************************************)
AuditWorkers == 1..concurrency

AuditWorkerStart == [pc |-> "lock", id |-> 0, sig |-> 0]

(***************************************************************************)
(* SpecAudit: show-tree on a history of at most MaxAuditSigs signatures.   *)
(* The outcome of each external call is chosen by the action that makes    *)
(* it.                                                                     *)
(***************************************************************************)
InitAudit ==
    /\ CoreIdle
    /\ IngesterIdle
    /\ ParseIdle
    /\ ChainIdle
    /\ LeafsIdle
    /\ PathIdle
    /\ MainIdle
    /\ a_len \in 0..MaxAuditSigs
    /\ a_pulled = 0
    /\ sig_id = 0
    /\ aw = [w \in AuditWorkers |-> AuditWorkerStart]
    /\ rx_sig_lock = <<>>
    /\ a_tx = <<>>
    /\ a_map = {}
    /\ a_next_id = 0
    /\ a_printed = <<>>
    /\ a_coll = "recv"
    /\ a_stage = "running"
    /\ a_result = "none"
    /\ a_failure = "none"
    /\ a_claimed = {}

AuditFrame ==
    UNCHANGED <<a_len, coreVars, ingesterVars, parseVars, chainVars, leafVars,
                pathVars, mainVars>>

\* A worker returns Err through `?`: try_join_all(fetch_futs) and the
\* try_join of read_tree end with that error (main.rs 893, 958-959, 971).
AuditFails(why) ==
    /\ a_stage' = "done"
    /\ a_result' = "Err"
    /\ a_failure' = why

\* `let mut lock = rx_sig.lock().await;` (main.rs 949).
AuditLock(w) ==
    /\ a_stage = "running"
    /\ aw[w].pc = "lock"
    /\ Unlocked(rx_sig_lock)
    /\ rx_sig_lock' = <<w>>
    /\ aw' = [aw EXCEPT ![w].pc = "recv"]
    /\ UNCHANGED <<a_pulled, sig_id, a_tx, a_map, a_next_id, a_printed,
                   a_coll, a_stage, a_result, a_failure, a_claimed>>
    /\ AuditFrame

\* Mutant of fetch_add: the value after the addition is returned.
add_fetch(counter) == counter + 1

\* `sig_id.fetch_add(1, Ordering::SeqCst)` returns the value before the
\* addition.
fetch_add(counter) == counter

\* `lock.recv().await`, `sig_id.fetch_add(1, ..)`, `drop(lock)` and the match
\* on the message (main.rs 950-958, 964): the next signature of the
\* history, an error of the signature search, or the end of the stream.
AuditPull(w) ==
    /\ a_stage = "running"
    /\ aw[w].pc = "recv"
    /\ sig_id' = sig_id + 1
    /\ rx_sig_lock' = <<>>
    /\ IF a_pulled < a_len
       THEN /\ a_pulled' = a_pulled + 1
            /\ \E sig_ok \in BOOLEAN :
                 IF sig_ok
                 THEN /\ aw' = [aw EXCEPT ![w] = [pc |-> "process",
                                                  id |-> fetch_add(sig_id),
                                                  sig |-> a_pulled + 1]]
                      /\ a_claimed' = a_claimed \cup
                            {[sig |-> a_pulled + 1, id |-> fetch_add(sig_id),
                              by |-> w]}
                      /\ UNCHANGED <<a_stage, a_result, a_failure>>
                 ELSE /\ AuditFails("signature search failed")
                      /\ UNCHANGED <<aw, a_claimed>>
       ELSE /\ aw' = [aw EXCEPT ![w] = [AuditWorkerStart EXCEPT !.pc = "returned"]]
            /\ UNCHANGED <<a_pulled, a_claimed, a_stage, a_result, a_failure>>
    /\ UNCHANGED <<a_tx, a_map, a_next_id, a_printed, a_coll>>
    /\ AuditFrame

\* What the transactions of the history are, in turn: one with change logs
\* of the audited tree, one that failed on-chain, one without metadata, one
\* without a change log of the audited tree.
TxKinds == <<"events", "failed", "nometa", "no event">>

\* The transaction of the signature at position sig of the history.
KindOf(sig) == TxKinds[((sig - 1) % Len(TxKinds)) + 1]

\* `map.remove(&pubkey)` on the map of parse_tx_sequence: the pairs of the
\* audited tree, or None when the map has none for it (main.rs 960, 1008).
PayloadOf(kind) == IF kind = "events" THEN "Some" ELSE "None"

\* Mutant of SendsResult: a result is sent when it has pairs.
SendsResultWithPairs(payload) == payload = "Some"

\* `let _ = tx.send((id, signature, map.remove(&pubkey)));` is not under a
\* condition on the payload (main.rs 960).
SendsResult(payload) == TRUE

\* `process_tx(signature, &client, max_retries).await?` and `tx.send(..)`
\* (main.rs 959-960): the fetch may fail after its retries, and
\* parse_tx_sequence may fail to decode the transaction, an instruction's
\* data or a loaded address (main.rs 1017-1041); each error is returned.
AuditProcess(w) ==
    /\ a_stage = "running"
    /\ aw[w].pc = "process"
    /\ \E outcome \in {"ok", "fetch failed", "decode failed"} :
         IF outcome = "ok"
         THEN /\ a_tx' = IF SendsResult(PayloadOf(KindOf(aw[w].sig)))
                          THEN Append(a_tx, aw[w].id)
                          ELSE a_tx
              /\ aw' = [aw EXCEPT ![w] = AuditWorkerStart]
              /\ UNCHANGED <<a_stage, a_result, a_failure>>
         ELSE /\ AuditFails(outcome)
              /\ UNCHANGED <<a_tx, aw>>
    /\ UNCHANGED <<a_pulled, sig_id, rx_sig_lock, a_map, a_next_id,
                   a_printed, a_coll, a_claimed>>
    /\ AuditFrame

\* One turn of `while let Some((id, sig, seqs)) = print_rx.recv().await`
\* (main.rs 897-904).
AuditCollectorRecv ==
    /\ a_stage = "running"
    /\ a_coll = "recv"
    /\ a_tx # <<>>
    /\ LET inserted == a_map \cup {Head(a_tx)} IN
         IF a_next_id \in inserted
         THEN /\ a_map' = inserted \ {a_next_id}
              /\ a_printed' = Append(a_printed, a_next_id)
              /\ a_next_id' = a_next_id + 1
         ELSE /\ a_map' = inserted
              /\ UNCHANGED <<a_printed, a_next_id>>
    /\ a_tx' = Tail(a_tx)
    /\ UNCHANGED <<a_pulled, sig_id, aw, rx_sig_lock, a_coll, a_stage,
                   a_result, a_failure, a_claimed>>
    /\ AuditFrame

\* Mutant of ResultsDisconnected: the `tx` of read_tree_start is not
\* dropped, so the result channel never closes.
ResultsNeverDisconnected == FALSE

\* Every sender of the result channel is dropped: read_tree_start drops its
\* own with `drop(tx)` and each worker drops its clone when it returns
\* (main.rs 947, 964, 969).
ResultsDisconnected == \A w \in AuditWorkers : aw[w].pc = "returned"

\* The channel is empty and every worker has returned (each dropped its
\* clone of tx): the rest of the map is sorted and printed (main.rs 907-911).
AuditCollectorEnd ==
    /\ a_stage = "running"
    /\ a_coll = "recv"
    /\ a_tx = <<>>
    /\ ResultsDisconnected
    /\ a_printed' = a_printed \o SortedById(a_map)
    /\ a_map' = {}
    /\ a_coll' = "done"
    /\ UNCHANGED <<a_pulled, sig_id, aw, rx_sig_lock, a_tx, a_next_id,
                   a_stage, a_result, a_failure, a_claimed>>
    /\ AuditFrame

\* Both futures of the try_join have ended with Ok (main.rs 893, 915-916).
AuditJoin ==
    /\ a_stage = "running"
    /\ a_coll = "done"
    /\ \A w \in AuditWorkers : aw[w].pc = "returned"
    /\ a_stage' = "done"
    /\ a_result' = "Ok"
    /\ UNCHANGED <<a_pulled, sig_id, aw, rx_sig_lock, a_tx, a_map, a_next_id,
                   a_printed, a_coll, a_failure, a_claimed>>
    /\ AuditFrame

NextAudit ==
    \/ \E w \in AuditWorkers : AuditLock(w) \/ AuditPull(w) \/ AuditProcess(w)
    \/ AuditCollectorRecv
    \/ AuditCollectorEnd
    \/ AuditJoin

SpecAudit == InitAudit /\ [][NextAudit]_vars

\* The runtime polls a future that can make a step: the workers and the
\* collector are futures of one try_join, a guard of the tokio mutex is
\* handed on when it is dropped, and every call to the node ends.
AuditFairness == WF_vars(NextAudit)

SpecAuditLive == SpecAudit /\ AuditFairness

(***************************************************************************)
(* main: the commands over a file of trees (main.rs 258-340).              *)
(***************************************************************************)
\* The lists of at most n lines, each a tree's pubkey or unparseable.
RECURSIVE Lines(_)
Lines(n) ==
    IF n = 0 THEN {<<>>}
    ELSE Lines(n - 1) \cup
            {Append(l, k) : l \in {x \in Lines(n - 1) : Len(x) = n - 1},
                            k \in {"tree", "unparseable"}}

\* How the command of one tree can end: check_tree, check_tree_leafs and
\* read_tree return Ok or an error; check_tree panics when
\* get_onchain_tree_seq does (SpecChain).
TreeOutcomes(cmd) ==
    IF cmd = "check-trees" THEN {"Ok", "Err", "Panic"} ELSE {"Ok", "Err"}

(***************************************************************************)
(* SpecMain: a multi-tree command on every file of at most MaxTrees lines. *)
(***************************************************************************)
InitMain ==
    /\ CoreIdle
    /\ IngesterIdle
    /\ ParseIdle
    /\ ChainIdle
    /\ AuditIdle
    /\ LeafsIdle
    /\ PathIdle
    /\ m_command \in {"check-trees", "check-trees-leafs", "show-trees"}
    /\ m_lines \in Lines(MaxTrees)
    /\ m_next = 1
    /\ m_processed = <<>>
    /\ m_stage = "setup"
    /\ m_result = "none"

MainFrame ==
    UNCHANGED <<m_command, m_lines, coreVars, ingesterVars, parseVars, chainVars,
                auditVars, leafVars, pathVars>>

\* What comes before the loop: read_lines(file), and for the commands that
\* use it the database connection and the output file (main.rs 269, 282,
\* 291-307); each may fail.
MainSetup ==
    /\ m_stage = "setup"
    /\ \E setup_ok \in BOOLEAN :
         IF setup_ok
         THEN m_stage' = "loop" /\ UNCHANGED m_result
         ELSE m_stage' = "done" /\ m_result' = "ErrSetup"
    /\ UNCHANGED <<m_next, m_processed>>
    /\ MainFrame

\* One turn of `while let Some(maybe_pubkey) = pubkeys.next().await`:
\* `let pubkey = maybe_pubkey?;` returns from main when the line is not a
\* pubkey; an error of the tree's command is logged and the loop goes on
\* (main.rs 283-289, 309-324, 330-338); a panic ends the process.
MainTree ==
    /\ m_stage = "loop"
    /\ m_next <= Len(m_lines)
    /\ IF m_lines[m_next] = "unparseable"
       THEN /\ m_stage' = "done"
            /\ m_result' = "ErrPubkey"
            /\ UNCHANGED <<m_next, m_processed>>
       ELSE \E outcome \in TreeOutcomes(m_command) :
              /\ m_processed' = Append(m_processed,
                                       [line |-> m_next, outcome |-> outcome])
              /\ IF outcome = "Panic"
                 THEN /\ m_stage' = "done"
                      /\ m_result' = "Panic"
                      /\ UNCHANGED m_next
                 ELSE /\ m_next' = m_next + 1
                      /\ UNCHANGED <<m_stage, m_result>>
    /\ MainFrame

\* The stream of lines has ended; check-trees-leafs flushes its output,
\* which may fail (main.rs 325-327, 369).
MainEnd ==
    /\ m_stage = "loop"
    /\ m_next > Len(m_lines)
    /\ m_stage' = "done"
    /\ \E flush_ok \in BOOLEAN :
         m_result' = IF m_command = "check-trees-leafs" /\ ~flush_ok
                     THEN "ErrFlush" ELSE "Ok"
    /\ UNCHANGED <<m_next, m_processed>>
    /\ MainFrame

NextMain == MainSetup \/ MainTree \/ MainEnd

SpecMain == InitMain /\ [][NextMain]_vars

(***************************************************************************)
(* SpecWorkers: the two worker pools that share a tokio Mutex, the         *)
(* fetch-and-forward threads of a repair (the messenger) and the futures   *)
(* of read_tree_start (the signature receiver). A behaviour is a repair or *)
(* an audit.                                                               *)
(***************************************************************************)
InitWorkers == InitPipe \/ InitAudit

NextWorkers == NextPipe \/ NextAudit

SpecWorkers == InitWorkers /\ [][NextWorkers]_vars

(***************************************************************************)
(* parse_tx_sequence (main.rs 1000-1065).                                  *)
(***************************************************************************)
\* A transaction holds at most MaxInstrs inner instructions.
MaxInstrs == 3

\* The trees and sequence numbers of the change logs, and their paths: an
\* empty path, and the path of leaf 1 of a tree of height 1.
EventTrees == {"A", "B"}
EventSeqs == 1..2
Paths ==
    {<<>>,
     <<[node |-> "leaf", index |-> 3], [node |-> "root", index |-> 1]>>}

\* An inner instruction: its form (UiInstruction::Compiled or another), the
\* account its program_id_index points at (the noop program, another
\* program, or no account of account_keys), and its data: a change log
\* event, another event of AccountCompressionEvent, bytes that are no event,
\* or a string that is not base58.
ChangeLogs ==
    {[form |-> "compiled", program |-> "noop", data |-> "changelog",
      id |-> t, seq |-> s, path |-> p] :
        t \in EventTrees, s \in EventSeqs, p \in Paths}

\* One change log stands for the data of the instructions that are not a
\* change log of the noop program.
Template == [form |-> "compiled", program |-> "noop", data |-> "changelog",
             id |-> "A", seq |-> 1, path |-> <<>>]

Instructions ==
    ChangeLogs
    \cup {[Template EXCEPT !.form = "parsed"]}
    \cup {[Template EXCEPT !.program = p] : p \in {"other", "missing"}}
    \cup {[Template EXCEPT !.data = d] :
             d \in {"other_event", "no_event", "bad_bs58"}}

\* The inner instructions of every group of meta.inner_instructions, in the
\* order the two loops visit them (main.rs 1033-1034).
InstructionLists == UNION {[1..n -> Instructions] : n \in 0..MaxInstrs}

\* `HashMap::new()`: no tree has a pair.
NewMap == [t \in EventTrees |-> <<>>]

\* Mutant of EntryPush: `insert(id, vec![pair])`, the pair replaces the
\* pairs the tree had.
EntryInsert(m, id, pair) == [m EXCEPT ![id] = <<pair>>]

\* `seq_updates.entry(id).or_default().push(pair)` (main.rs 1053-1056).
EntryPush(m, id, pair) == [m EXCEPT ![id] = Append(@, pair)]

\* The MaybeLeafNode of a change log: the first node of its path with its
\* leaf index, if the path has a node (main.rs 1046-1052).
LeafNodeOf(path) ==
    IF path = <<>> THEN None
    ELSE Some([leaf |-> path[1].node,
               index |-> LeafOf(Len(path), path[1].index)[1]])

ParseOk(m) == [kind |-> "Ok", map |-> m, why |-> "none"]
ParseErr(why) == [kind |-> "Err", map |-> NewMap, why |-> why]

RECURSIVE ScanInstructions(_, _)
\* The loops over the inner instructions (main.rs 1033-1062): an
\* instruction counts when it is Compiled, its program is an account of
\* account_keys and that account is the noop program; its data must be
\* base58, or the function returns ParseError::Instruction; data that is
\* not a change log event is passed over.
ScanInstructions(ixs, m) ==
    IF ixs = <<>> THEN ParseOk(m)
    ELSE LET ix == Head(ixs)
         IN  IF ix.form = "compiled" /\ ix.program = "noop"
             THEN IF ix.data = "bad_bs58" THEN ParseErr("Instruction")
                  ELSE IF ix.data = "changelog"
                  THEN ScanInstructions(Tail(ixs),
                          EntryPush(m, ix.id, <<ix.seq, LeafNodeOf(ix.path)>>))
                  ELSE ScanInstructions(Tail(ixs), m)
             ELSE ScanInstructions(Tail(ixs), m)

\* parse_tx_sequence(tx): an empty map for a failed or metadata-less
\* transaction (main.rs 1006-1009; the ok_or of 1012 cannot fail after it);
\* with inner instructions, the decoding of the transaction and of the
\* loaded addresses, either of which may fail, and then the scan.
parse_tx_sequence(tx, decode_ok, addresses_ok) ==
    IF tx.status # "ok" THEN ParseOk(NewMap)
    ELSE IF tx.inner_instructions = None THEN ParseOk(NewMap)
    ELSE IF ~decode_ok THEN ParseErr("Transaction")
    ELSE IF ~addresses_ok THEN ParseErr("Pubkey")
    ELSE ScanInstructions(tx.inner_instructions[1], NewMap)

(***************************************************************************)
(* SpecParse: parse_tx_sequence applied to every transaction of the        *)
(* bounds.                                                                 *)
(***************************************************************************)
InitParse ==
    /\ CoreIdle
    /\ IngesterIdle
    /\ ChainIdle
    /\ AuditIdle
    /\ LeafsIdle
    /\ PathIdle
    /\ MainIdle
    /\ transaction \in
          [status : {"ok", "failed", "nometa"},
           inner_instructions : {None} \cup {Some(l) : l \in InstructionLists}]
    /\ seq_updates = <<>>
    /\ xstage = "start"

ParseTx ==
    /\ xstage = "start"
    /\ \E decode_ok, addresses_ok \in BOOLEAN :
         seq_updates' = parse_tx_sequence(transaction, decode_ok, addresses_ok)
    /\ xstage' = "done"
    /\ UNCHANGED transaction
    /\ UNCHANGED <<coreVars, ingesterVars, chainVars, auditVars, leafVars,
                   pathVars, mainVars>>

NextParse == ParseTx

SpecParse == InitParse /\ [][NextParse]_vars

(***************************************************************************)
(* SpecTool: the commands of the tool side by side. A behaviour is a       *)
(* check_tree or fix_tree, a repair, a show-tree with its collector, or a  *)
(* check_tree_leafs.                                                       *)
(***************************************************************************)
InitTool == InitFix \/ InitPipe \/ InitAudit \/ InitCollector \/ InitLeafs

NextTool == NextFix \/ NextPipe \/ NextAudit \/ NextCollector \/ NextLeafs

SpecTool == InitTool /\ [][NextTool]_vars

(***************************************************************************)
(* The ingester (nft_ingester/src/main.rs): process_instruction.           *)
(***************************************************************************)
\* A transaction has at most MaxKeys account keys and an instruction at
\* most MaxIxAccounts accounts, each an index of 0..MaxKeys + 1.
MaxKeys == 3
MaxIxAccounts == 3

\* The account keys of a transaction of n keys; the key at index a is
\* written a.
KeysOf(n) == [i \in 1..n |-> i - 1]

\* The lists of account indexes of an instruction.
AccountLists ==
    UNION {[1..n -> 0..(MaxKeys + 1)] : n \in 0..MaxIxAccounts}

\* `keys.get(a)` on a slice: the element at index a, counted from 0, if the
\* slice has one.
KeysGet(ks, a) == IF a < Len(ks) THEN Some(ks[a + 1]) ELSE None

\* `ix_accounts.iter().max().copied().unwrap_or(0)`.
MaxAccount(accounts) ==
    IF accounts = <<>> THEN 0 ELSE SetMax(SeqToSet(accounts))

RECURSIVE FoldKeys(_, _, _)
\* The fold over ix_accounts: the key of an account is pushed when keys has
\* it, and nothing is pushed when it has not (main.rs 349-357).
FoldKeys(ks, accounts, acc) ==
    IF accounts = <<>> THEN acc
    ELSE LET key == KeysGet(ks, Head(accounts))
         IN  FoldKeys(ks, Tail(accounts),
                      IF key # None THEN Append(acc, key[1]) ELSE acc)

\* process_instruction (main.rs 333-367): the length check, then the bundle
\* with the keys of the fold is handed to handle_instruction, whose result is
\* returned.
process_instruction(ks, accounts, handler_ok) ==
    IF Len(ks) < MaxAccount(accounts)
    THEN [kind |-> "Err", why |-> "DeserializationError",
          handled |-> FALSE, keys |-> <<>>]
    ELSE [kind |-> IF handler_ok THEN "Ok" ELSE "Err",
          why |-> IF handler_ok THEN "none" ELSE "handle_instruction",
          handled |-> TRUE, keys |-> FoldKeys(ks, accounts, <<>>)]

(***************************************************************************)
(* SpecInstruction: process_instruction on every transaction and           *)
(* instruction of the bounds.                                              *)
(***************************************************************************)
InitInstruction ==
    /\ CoreIdle
    /\ ChainIdle
    /\ AuditIdle
    /\ LeafsIdle
    /\ PathIdle
    /\ MainIdle
    /\ ParseIdle
    /\ IngestIdle
    /\ keys \in {KeysOf(n) : n \in 0..MaxKeys}
    /\ ix_accounts \in AccountLists
    /\ bundle = <<>>
    /\ istage = "start"

ProcessInstruction ==
    /\ istage = "start"
    /\ \E handler_ok \in BOOLEAN :
         bundle' = process_instruction(keys, ix_accounts, handler_ok)
    /\ istage' = "done"
    /\ UNCHANGED <<keys, ix_accounts>>
    /\ UNCHANGED <<coreVars, chainVars, auditVars, leafVars, pathVars,
                   mainVars, parseVars, ingestVars>>

NextInstruction == ProcessInstruction

SpecInstruction == InitInstruction /\ [][NextInstruction]_vars

(***************************************************************************)
(* The ingester: handle_transaction and one turn of the loop of            *)
(* service_transaction_stream (nft_ingester/src/main.rs 210-218, 369-429). *)
(***************************************************************************)
\* recv returns at most MaxBatch messages, and break_transaction at most
\* MaxTxnIxs instructions for a transaction.
MaxBatch == 2
MaxTxnIxs == 2

\* The account keys of the transactions.
TxnKeys == KeysOf(MaxKeys)

\* The instructions: one that handle_instruction handles, one it fails on,
\* and one with an account above the keys of the transaction.
TxnInstructions ==
    {[accounts |-> <<0>>, handler_ok |-> TRUE],
     [accounts |-> <<0>>, handler_ok |-> FALSE],
     [accounts |-> <<MaxKeys + 1>>, handler_ok |-> TRUE]}

\* What a message holds: bytes that root_as_transaction_info cannot read,
\* or a transaction with its instructions in the order of break_transaction.
Payloads ==
    {[decodes |-> FALSE, instructions |-> <<>>]} \cup
    {[decodes |-> TRUE, instructions |-> l] :
        l \in UNION {[1..n -> TxnInstructions] : n \in 0..MaxTxnIxs}}

\* A batch of recv: n messages with the payloads f; the message at position
\* i has the stream id i.
BatchOf(n, f) ==
    [i \in 1..n |-> [id |-> i, decodes |-> f[i].decodes,
                     instructions |-> f[i].instructions]]

\* Mutant of IdsAfter: the id is pushed whatever the result.
IdsAfterAnyResult(ids_so_far, id, result) == Append(ids_so_far, id)

\* `match res { Ok(_) => { .. ids.push(id.clone()); } Err(err) => { .. } }`
\* (main.rs 405-424).
IdsAfter(ids_so_far, id, result) ==
    IF result.kind = "Ok" THEN Append(ids_so_far, id) ELSE ids_so_far

RECURSIVE InstructionLoop(_, _, _)
\* `for (outer_ix, inner_ix) in instructions` (main.rs 399-425).
InstructionLoop(ixs, id, ids_so_far) ==
    IF ixs = <<>> THEN ids_so_far
    ELSE LET ix == Head(ixs)
             result ==
                 process_instruction(TxnKeys, ix.accounts, ix.handler_ok)
         IN  InstructionLoop(Tail(ixs), id,
                             IdsAfter(ids_so_far, id, result))

RECURSIVE ItemLoop(_, _)
\* `for item in data`: a message that root_as_transaction_info cannot read
\* is passed over (main.rs 372-427).
ItemLoop(items, ids_so_far) ==
    IF items = <<>> THEN ids_so_far
    ELSE LET item == Head(items)
         IN  ItemLoop(Tail(items),
                      IF item.decodes
                      THEN InstructionLoop(item.instructions, item.id,
                                           ids_so_far)
                      ELSE ids_so_far)

\* handle_transaction(manager, data).
handle_transaction(items) == ItemLoop(items, <<>>)

(***************************************************************************)
(* SpecIngest: one turn of the listener on every batch of the bounds.      *)
(***************************************************************************)
InitIngest ==
    /\ CoreIdle
    /\ ChainIdle
    /\ AuditIdle
    /\ LeafsIdle
    /\ PathIdle
    /\ MainIdle
    /\ ParseIdle
    /\ InstrIdle
    /\ \E n \in 0..MaxBatch : \E f \in [1..n -> Payloads] :
          recv_data = BatchOf(n, f)
    /\ txn_ids = <<>>
    /\ acked = <<>>
    /\ tstage = "recv"

IngestFrame ==
    UNCHANGED <<recv_data, coreVars, chainVars, auditVars, leafVars, pathVars,
                mainVars, parseVars, instrVars>>

\* `if let Ok(data) = messenger.recv(TRANSACTION_STREAM).await` and
\* `handle_transaction(&manager, data).await` (main.rs 211-212).
ListenerRecv ==
    /\ tstage = "recv"
    /\ \E recv_ok \in BOOLEAN :
         IF recv_ok
         THEN /\ txn_ids' = handle_transaction(recv_data)
              /\ tstage' = "handled"
         ELSE /\ tstage' = "recv failed"
              /\ UNCHANGED txn_ids
    /\ UNCHANGED acked
    /\ IngestFrame

\* `if !ids.is_empty() { messenger.ack_msg(TRANSACTION_STREAM, &ids) }`: an
\* error of ack_msg is printed (main.rs 213-217).
ListenerAck ==
    /\ tstage = "handled"
    /\ IF txn_ids # <<>>
       THEN \E ack_ok \in BOOLEAN :
               acked' = Append(acked, [ids |-> txn_ids, ok |-> ack_ok])
       ELSE UNCHANGED acked
    /\ tstage' = "done"
    /\ UNCHANGED txn_ids
    /\ IngestFrame

NextIngest == ListenerRecv \/ ListenerAck

SpecIngest == InitIngest /\ [][NextIngest]_vars

(***************************************************************************)
(* SpecRanges: build_seq_ranges applied to every ascending list of         *)
(* distinct numbers of 1..MaxSeq.                                          *)
(***************************************************************************)
InitRanges ==
    /\ RestIdle
    /\ FixIdle
    /\ CollIdle
    /\ LedgerIdle
    /\ SigsIdle
    /\ PipeIdle
    /\ seqs \in {SortedSeq(S) : S \in SUBSET (1..MaxSeq)}
    /\ ranges = <<>>
    /\ joined_ranges = <<>>
    /\ rstage = "start"

BuildSeqRanges ==
    /\ rstage = "start"
    /\ ranges' = RangesOf(seqs)
    /\ joined_ranges' = build_seq_ranges(seqs)
    /\ rstage' = "done"
    /\ UNCHANGED seqs
    /\ UNCHANGED <<fixVars, collVars, ledgerVars, sigVars, pipeVars, restVars>>

NextRanges == BuildSeqRanges

SpecRanges == InitRanges /\ [][NextRanges]_vars

(***************************************************************************)
(* Claims about the collector of read_tree, checked under SpecCollector.   *)
(***************************************************************************)
StrictlyAscending(s) == \A i, j \in 1..Len(s) : i < j => s[i] < s[j]
StrictlyDescending(s) == \A i, j \in 1..Len(s) : i < j => s[i] > s[j]

\* C6: for results with ids 0..N-1 delivered in any order, every result is
\* printed exactly once, the printed ids are strictly ascending, and the
\* buffer is empty when the collector finishes.
C6_CollectorOrdered ==
    /\ StrictlyAscending(printed)
    /\ SeqToSet(printed) \subseteq SeqToSet(arrived)
    /\ (cstage = "done" =>
          /\ SeqToSet(printed) = results
          /\ Len(printed) = Cardinality(results)
          /\ map = {})

\* C6 witness: the ids 0..N-1 (N >= 3) arrived fully reversed and the
\* collector has finished.
C6_Witness ==
    /\ cstage = "done"
    /\ Cardinality(results) >= 3
    /\ results = 0..(Cardinality(results) - 1)
    /\ StrictlyDescending(arrived)
    /\ Len(printed) = Cardinality(results)

\* C22 as stated: after each received result has been handled, the buffer
\* holds no entry for the next expected id.
C22_BufferDrainedToNextId == next_id \notin map

(***************************************************************************)
(* Claims about find_signatures_for_missing_seq_range, under SpecSigs.     *)
(***************************************************************************)
NoDuplicates(s) == \A i, j \in 1..Len(s) : i # j => s[i] # s[j]

\* The window between the until bound and the initial before bound.
RangeWindow == Window(ledger_len, before0, until)

\* C8: the search sends every signature of the history strictly between the
\* until bound and the initial before bound, each exactly once, and none
\* outside that window (all of them once the search returns Ok); `before` is
\* advanced to the oldest signature of each page, and the loop stops at the
\* first empty page.
C8_WindowSentExactlyOnce ==
    /\ NoDuplicates(sender)
    /\ (sstage # "bounds" => SeqToSet(sender) \subseteq RangeWindow)
    /\ (sstage = "paging" /\ pages # <<>>
          => before = Some(pages[Len(pages)][Len(pages[Len(pages)])]))
    /\ (sstage = "paging" => \A i \in 1..Len(pages) : pages[i] # <<>>)
    /\ (sstage = "done" /\ sresult = "Ok"
          => /\ SeqToSet(sender) = RangeWindow
             /\ pages # <<>>
             /\ pages[Len(pages)] = <<>>
             /\ \A i \in 1..(Len(pages) - 1) : pages[i] # <<>>)

\* C8 witness: a search bounded on both sides returned Ok after several
\* pages and the closing empty one.
C8_Witness ==
    /\ sstage = "done"
    /\ sresult = "Ok"
    /\ before0 # None
    /\ until # None
    /\ Len(pages) >= 3
    /\ Len(sender) >= 3

\* The end-to-end scenario: the chain is at sequence 100 and the index has
\* one record for every sequence of 1..100 but 81.
ScenarioIndex == [s \in 1..100 |-> IF s = 81 THEN 0 ELSE 1]

ScenarioRanges == build_seq_ranges(get_missing_seq(ScenarioIndex, 100))

\* The bounds of the scenario's range are the transactions of 82 and 80, and
\* the window between them is the one transaction of sequence 81.
ScenarioBounds ==
    /\ ScenarioRanges = << <<81, 81>> >>
    /\ BeforeTxn(IndexedSeqs(ScenarioIndex), 81) = Some(TxOf(82))
    /\ UntilTxn(IndexedSeqs(ScenarioIndex), 81) = Some(TxOf(80))
    /\ Window(100, Some(TxOf(82)), Some(TxOf(80))) = {TxOf(81)}

SendsOf(s) == Cardinality({i \in 1..Len(stream) : stream[i].sig = s})

\* Some worker panicked while it held signature s.
PanickedAt(s) == \E w \in Fetchers : fet[w].pc = "panicked" /\ fet[w].sig = s

\* C9 as stated: for every signature pulled whose fetch succeeded, a
\* transaction that succeeded on-chain and carries metadata gets exactly one
\* send; one that failed or has no metadata gets no send, raises no error
\* and leaves the worker running.
C9_OneSendPerGoodTransaction ==
    \A h \in handled :
        h.outcome # "fetch failed" =>
            /\ (h.tx = "ok" => SendsOf(h.sig) = 1)
            /\ (h.tx \in {"failed", "nometa"}
                  => /\ SendsOf(h.sig) = 0
                     /\ h.outcome = "dropped"
                     /\ ~PanickedAt(h.sig))

\* C9 amended: for every signature pulled whose fetch succeeded, a
\* transaction that succeeded on-chain, carries metadata and is serialized
\* successfully gets exactly one send; when its serialization fails it gets
\* no send and the worker panics; one that failed on-chain or has no metadata
\* gets no send, raises no error and leaves the worker running.
C9_OneSendPerSerializedTransaction ==
    \A h \in handled :
        h.outcome # "fetch failed" =>
            /\ (h.tx = "ok" /\ h.outcome # "serialize failed"
                  => /\ SendsOf(h.sig) = 1
                     /\ h.outcome \in {"sent", "send failed"})
            /\ (h.outcome = "serialize failed"
                  => /\ h.tx = "ok"
                     /\ SendsOf(h.sig) = 0
                     /\ PanickedAt(h.sig))
            /\ (h.tx \in {"failed", "nometa"}
                  => /\ SendsOf(h.sig) = 0
                     /\ h.outcome = "dropped"
                     /\ ~PanickedAt(h.sig))

\* C9 witness: the invocation ended after one transaction without metadata
\* was dropped and another transaction was sent.
C9_Witness ==
    /\ pstage = "done"
    /\ \E h \in handled : h.tx = "nometa" /\ h.outcome = "dropped"
    /\ \E h \in handled : h.tx = "ok" /\ h.outcome = "sent" /\ SendsOf(h.sig) = 1

\* C10: when a send to the stream fails for a signature, that send is not
\* retried (it stays the only send made for the signature, and the worker
\* that made it has panicked), and the invocation never ends with Ok.
C10_FailedSendIsFatal ==
    \A i \in 1..Len(stream) :
        ~stream[i].ok =>
            /\ SendsOf(stream[i].sig) = 1
            /\ PanickedAt(stream[i].sig)
            /\ presult # "Ok"

\* C10 witness: the invocation ended in a panic after one send failed and
\* another one succeeded.
C10_Witness ==
    /\ pstage = "done"
    /\ presult = "Panic"
    /\ \E i \in 1..Len(stream) : ~stream[i].ok
    /\ \E i \in 1..Len(stream) : stream[i].ok

\* C11 as stated: when the fetch of one signature fails after its retries,
\* only that signature is dropped: the worker that held it does not stop,
\* and an invocation in which nothing but fetches failed ends with Ok and
\* an empty signatures channel.
C11_FetchFailureDropsOnlyThatSignature ==
    /\ \A h \in handled : h.outcome = "fetch failed" => ~PanickedAt(h.sig)
    /\ (pstage = "done" /\ presult # "Err"
          /\ (\A h \in handled : h.outcome \in {"fetch failed", "dropped", "sent"})
          => presult = "Ok" /\ s_queue = <<>>)

\* The signatures put on the signatures channel so far: those still on it,
\* those a worker holds and those send_txn has ended for.
Queued ==
    SeqToSet(s_queue)
        \cup {fet[w].sig : w \in {f \in Fetchers : fet[f].sig # 0}}
        \cup {h.sig : h \in handled}

\* The window of signatures the search of range r resolves.
WindowOf(r) ==
    Window(ledger_len, BeforeTxn(indexed, r[2]), UntilTxn(indexed, r[1]))

\* C12: a resolver thread ends only when the ranges channel is closed and
\* drained, so a resolver that hit an error keeps pulling; a range is
\* searched once, failed or not; when the scope has ended every range of the
\* invocation was searched, and every range whose search did not fail has
\* its whole window on the signatures channel.
C12_FailedRangeSkippedOthersResolved ==
    /\ \A w \in Resolvers :
          res[w].pc = "exited" => r_queue = <<>> /\ ~r_open
    /\ \A e \in resolved :
          /\ Cardinality({x \in resolved : x.range = e.range}) = 1
          /\ e.ok => WindowOf(e.range) \subseteq Queued
    /\ (pstage = "done" /\ presult # "Err"
          => {e.range : e \in resolved} = SeqToSet(build_seq_ranges(p_seqs)))

\* C12 witness: the scope has ended; one resolver failed on a range and
\* afterwards resolved another range, whose signatures were queued.
C12_Witness ==
    /\ pstage = "done"
    /\ \E e1, e2 \in resolved :
          /\ ~e1.ok
          /\ e2.ok
          /\ e1.by = e2.by
          /\ e1.range[1] < e2.range[1]
          /\ WindowOf(e2.range) # {}
          /\ WindowOf(e2.range) \subseteq {h.sig : h \in handled}

\* C15 as stated, for a capacity of QueueCapacity: neither channel of the
\* pipeline ever holds more than QueueCapacity items.
C15_QueuesBounded ==
    /\ Len(r_queue) <= QueueCapacity
    /\ Len(s_queue) <= QueueCapacity

\* C21: with every thread scheduled and every external call returning, the
\* invocation ends; a resolver ends only when the ranges channel is closed
\* and empty, a fetch-and-forward worker exits only when every resolver has
\* ended and the signatures channel is empty, and once the scope has ended
\* the producer has closed the ranges channel and no thread of the scope is
\* still running (each has exited, or ended in a panic).
C21_PipelineTerminates ==
    /\ <>(pstage = "done")
    /\ [](\A w \in Resolvers :
            res[w].pc = "exited" => ~r_open /\ r_queue = <<>>)
    /\ [](\A w \in Fetchers :
            fet[w].pc = "exited"
               => s_queue = <<>> /\ \A r \in Resolvers : res[r].pc = "exited")
    /\ []((pstage = "done" /\ presult # "Err")
            => /\ p_todo = <<>>
               /\ ~r_open
               /\ r_queue = <<>>
               /\ \A r \in Resolvers : res[r].pc = "exited"
               /\ \A f \in Fetchers : fet[f].pc \in {"exited", "panicked"})

\* C21 witness: an invocation of two ranges has ended with Ok after both
\* signatures were sent and every thread exited.
C21_Witness ==
    /\ pstage = "done"
    /\ presult = "Ok"
    /\ Cardinality(resolved) = 2
    /\ Len(stream) = 2
    /\ \A f \in Fetchers : fet[f].pc = "exited"

\* The ranges the resolvers are searching.
HeldRanges == {res[w].range : w \in {r \in Resolvers : res[r].pc \in {"bounds", "paging"}}}

\* C25: the producer sends the ranges of build_seq_ranges in order, each
\* once: what it has still to send is a suffix of that list, and each range
\* sent is either on the channel (once), or held by exactly one resolver, or
\* resolved by exactly one resolver; when the scope has ended every range
\* has been resolved.
C25_EachRangeTakenOnce ==
    (pstage \in {"running", "done"} /\ presult # "Err") =>
        LET all == build_seq_ranges(p_seqs)
            sent == Len(all) - Len(p_todo)
            done == {e.range : e \in resolved}
        IN  /\ sent >= 0
            /\ p_todo = SubSeq(all, sent + 1, Len(all))
            /\ NoDuplicates(r_queue)
            /\ SeqToSet(r_queue) \cap HeldRanges = {}
            /\ SeqToSet(r_queue) \cap done = {}
            /\ HeldRanges \cap done = {}
            /\ \A w1, w2 \in Resolvers :
                  (w1 # w2 /\ res[w1].pc \in {"bounds", "paging"}
                           /\ res[w2].pc \in {"bounds", "paging"})
                     => res[w1].range # res[w2].range
            /\ Cardinality(resolved) = Cardinality(done)
            /\ SeqToSet(r_queue) \cup HeldRanges \cup done
                  = {all[i] : i \in 1..sent}
            /\ (pstage = "done" => done = SeqToSet(all))

\* C25 witness: the scope has ended after two ranges were resolved, each by
\* another resolver.
C25_Witness ==
    /\ pstage = "done"
    /\ \E e1, e2 \in resolved : e1.range # e2.range /\ e1.by # e2.by

\* The signatures the fetch-and-forward threads are working on.
HeldSigs ==
    {fet[w].sig : w \in {f \in Fetchers : fet[f].pc \in {"fetch", "lock", "send"}}}

\* The signatures send_txn has ended for.
HandledSigs == {h.sig : h \in handled}

\* C30: a signature sent to the signatures channel stays on the channel, with
\* one thread or among the handled ones, and is in one of these places only;
\* when the invocation has returned Ok, both channels are empty, every
\* thread has ended without a panic, every range was searched once, the
\* window of every range whose search succeeded was handled, every handled
\* signature was handled once and was either sent once, its transaction
\* successful, or dropped without a send, its transaction failed or without
\* metadata, and every send on the stream is the successful send of a handled
\* signature.
C30_SuccessMeansQueuesConserved ==
    /\ [][SeqToSet(s_queue) \cup HeldSigs \cup HandledSigs
             \subseteq SeqToSet(s_queue') \cup HeldSigs' \cup HandledSigs']_vars
    /\ []((pstage \in {"running", "done"} /\ presult # "Err") =>
            /\ NoDuplicates(s_queue)
            /\ SeqToSet(s_queue) \cap HeldSigs = {}
            /\ SeqToSet(s_queue) \cap HandledSigs = {}
            /\ HeldSigs \cap HandledSigs = {}
            /\ \A w1, w2 \in Fetchers :
                  (w1 # w2 /\ fet[w1].pc \in {"fetch", "lock", "send"}
                           /\ fet[w2].pc \in {"fetch", "lock", "send"})
                     => fet[w1].sig # fet[w2].sig
            /\ Cardinality(handled) = Cardinality(HandledSigs))
    /\ []((pstage = "done" /\ presult = "Ok") =>
            /\ p_todo = <<>>
            /\ r_queue = <<>>
            /\ s_queue = <<>>
            /\ \A w \in Resolvers : res[w].pc = "exited"
            /\ \A w \in Fetchers : fet[w].pc = "exited"
            /\ {e.range : e \in resolved} = SeqToSet(build_seq_ranges(p_seqs))
            /\ Cardinality(resolved) = Len(build_seq_ranges(p_seqs))
            /\ \A e \in resolved : e.ok => WindowOf(e.range) \subseteq HandledSigs
            /\ \A h \in handled :
                  \/ h.outcome = "sent" /\ h.tx = "ok" /\ SendsOf(h.sig) = 1
                  \/ /\ h.outcome = "dropped"
                     /\ h.tx \in {"failed", "nometa"}
                     /\ SendsOf(h.sig) = 0
            /\ \A i \in 1..Len(stream) :
                  stream[i].ok /\ stream[i].sig \in HandledSigs)

\* C30 witness: the invocation returned Ok after two ranges were searched
\* with success; a signature of one was sent and a signature of the other
\* was dropped.
C30_Witness ==
    /\ pstage = "done"
    /\ presult = "Ok"
    /\ \E e1, e2 \in resolved : \E h1, h2 \in handled :
          /\ e1.range # e2.range
          /\ e1.ok
          /\ e2.ok
          /\ h1.sig \in WindowOf(e1.range)
          /\ h2.sig \in WindowOf(e2.range)
          /\ h1.outcome = "sent"
          /\ h2.outcome = "dropped"

\* The window of range r on a history of n signatures with index idx.
WindowFor(n, idx, r) == Window(n, BeforeTxn(idx, r[2]), UntilTxn(idx, r[1]))

\* The windows of the ranges built for the sequence numbers `missing` of
\* 1..n, the index holding the others, are pairwise disjoint.
DisjointWindows(n, missing) ==
    LET idx == (1..n) \ missing
        rs == build_seq_ranges(SortedSeq(missing))
    IN  \A i, j \in 1..Len(rs) :
           i < j => WindowFor(n, idx, rs[i]) \cap WindowFor(n, idx, rs[j]) = {}

\* Every set of missing sequence numbers of a tree of PipeChainSeq
\* sequence numbers.
AllWindowsDisjoint ==
    \A missing \in SUBSET (1..PipeChainSeq) :
        DisjointWindows(PipeChainSeq, missing)

\* The number of places signature s is at: on the signatures channel, with
\* a thread, among the handled ones.
PlacesOf(s) ==
    Cardinality({i \in 1..Len(s_queue) : s_queue[i] = s})
      + Cardinality({w \in Fetchers :
                        fet[w].pc \in {"fetch", "lock", "send"} /\ fet[w].sig = s})
      + Cardinality({h \in handled : h.sig = s})

\* C31: the index does not change during a repair and the transaction of a
\* sequence number is at the position of that number in the history; then
\* the windows of two different ranges of build_seq_ranges are disjoint,
\* for every set of missing sequence numbers, and in a repair a signature is
\* at one place at most and is sent once at most.
C31_WindowsOfRangesDisjoint ==
    /\ AllWindowsDisjoint
    /\ (pstage \in {"running", "done"} /\ presult # "Err") =>
          LET rs == build_seq_ranges(p_seqs)
          IN  /\ \A i, j \in 1..Len(rs) :
                    i < j => WindowOf(rs[i]) \cap WindowOf(rs[j]) = {}
              /\ \A s \in 1..ledger_len :
                    /\ PlacesOf(s) <= 1
                    /\ SendsOf(s) <= 1

\* C31 witness: the invocation has ended after the searches of two ranges
\* succeeded, and every signature of both windows was sent.
C31_Witness ==
    /\ pstage = "done"
    /\ \E e1, e2 \in resolved :
          /\ e1.range # e2.range
          /\ e1.ok /\ e2.ok
          /\ WindowOf(e1.range) # {}
          /\ WindowOf(e2.range) # {}
          /\ \A s \in WindowOf(e1.range) \cup WindowOf(e2.range) :
                SendsOf(s) = 1

(***************************************************************************)
(* Claims about get_onchain_tree_seq, checked under SpecChain.             *)
(***************************************************************************)
\* The account data is shorter than the header plus the tree body the
\* header asks for.
TooShort(data) ==
    \/ data.len < CONCURRENT_MERKLE_TREE_HEADER_SIZE_V1
    \/ /\ merkle_tree_get_size(data.header) # None
       /\ data.len < CONCURRENT_MERKLE_TREE_HEADER_SIZE_V1
                        + merkle_tree_get_size(data.header)[1]

\* C19 as stated: when the account does not exist, its data is shorter than
\* header plus tree body, or its header cannot be decoded,
\* get_onchain_tree_seq ends with an error value: no sequence number and no
\* panic.
C19_ChainReadFailsWithErrorValue ==
    ( /\ gstage = "done"
      /\ \/ account = None
         \/ account # None /\ TooShort(account[1])
         \/ account # None /\ account[1].header = "undecodable" )
    => gresult.kind = "Err"

(***************************************************************************)
(* Claims about node_idx_to_leaf_idx, checked under SpecPath.              *)
(***************************************************************************)
\* C18: for a path of height h in 0..30 (its length minus one) whose first
\* node has index 2^h + k, k in [0, 2^h), the leaf index is k: it lies in
\* [0, 2^h), adding 2^h to it gives the node index back, node 2^h is leaf 0
\* and node 2^h + (2^h - 1) is leaf 2^h - 1; an empty path has no leaf, and
\* the height is not computed for it.
C18_LeafIndexOfNodeIndex ==
    hstage = "done" =>
        IF path_len = 0 THEN leaf = None
        ELSE LET h == path_len - 1
             IN  /\ leaf # None
                 /\ leaf[1] >= 0
                 /\ leaf[1] < 2^h
                 /\ 2^h + leaf[1] = node_index
                 /\ (node_index = 2^h => leaf[1] = 0)
                 /\ (node_index = 2^h + (2^h - 1) => leaf[1] = 2^h - 1)

\* C18 witness: the rightmost leaf of a tree of height 30 was computed.
C18_Witness ==
    /\ hstage = "done"
    /\ path_len = 31
    /\ node_index = 2^30 + (2^30 - 1)
    /\ leaf = Some(2^30 - 1)

(***************************************************************************)
(* Claims about check_tree_leafs, checked under SpecLeafs.                 *)
(***************************************************************************)
\* The on-chain sequence numbers whose change log names leaf l.
SeqsOfLeaf(l) == {s \in DOMAIN leaf_of : leaf_of[s] = Some(l)}

\* The kind of report leaf l is due: on-chain only, both sides with
\* different sequence numbers, database only, or none.
DueKind(l) ==
    IF SeqsOfLeaf(l) # {} /\ leafs_db[l] = None THEN "not found in db"
    ELSE IF SeqsOfLeaf(l) # {} /\ leafs_db[l] # Some(SetMax(SeqsOfLeaf(l)))
    THEN "invalid seq"
    ELSE IF SeqsOfLeaf(l) = {} /\ leafs_db[l] # None
    THEN "not found in blockchain"
    ELSE "none"

ReportsOf(l) == {r \in l_reports : r.leaf = l}

\* C16: every leaf index gets at most one report, of the kind it is due, and
\* a signature is written only for a leaf reported as not found in db, the
\* signature of its largest sequence number; when check_tree_leafs returns
\* Ok every leaf has got exactly the report it is due (none for equal
\* sequence numbers), and with an output configured every leaf not found in
\* db has its signature written.
C16_EachLeafClassifiedOnce ==
    /\ \A l \in LeafIndexes :
          /\ ReportsOf(l) \subseteq {Report(l, DueKind(l))}
          /\ DueKind(l) = "none" => ReportsOf(l) = {}
    /\ \A w \in l_written :
          /\ output
          /\ Report(w.leaf, "not found in db") \in l_reports
          /\ w.signature = SigOf(SetMax(SeqsOfLeaf(w.leaf)))
    /\ (l_stage = "done" /\ l_result = "Ok" =>
          \A l \in LeafIndexes :
             /\ DueKind(l) # "none" => ReportsOf(l) = {Report(l, DueKind(l))}
             /\ (output /\ DueKind(l) = "not found in db"
                   => Cardinality({w \in l_written : w.leaf = l}) = 1)
             /\ (DueKind(l) # "not found in db"
                   => {w \in l_written : w.leaf = l} = {}))

\* C16 witness: check_tree_leafs returned Ok with an output configured; one
\* leaf was on both sides with different sequence numbers and the other one
\* on-chain only, and its signature was written.
C16_Witness ==
    /\ l_stage = "done"
    /\ l_result = "Ok"
    /\ output
    /\ Report(0, "invalid seq") \in l_reports
    /\ Report(1, "not found in db") \in l_reports
    /\ Cardinality(l_reports) = 2
    /\ Cardinality(l_written) = 1

\* C17: once every result has been received, `leafs` holds for each leaf
\* observed on-chain its largest sequence number, with the signature of that
\* sequence number, and no entry for a leaf never observed, in whatever
\* order the results arrived.
C17_MaxSeqPerLeaf ==
    (l_stage = "collect" /\ leafs_rx = {}) =>
        \A l \in LeafIndexes :
            leafs[l] = IF SeqsOfLeaf(l) = {} THEN None
                       ELSE Some(<<SigOf(SetMax(SeqsOfLeaf(l))),
                                   SetMax(SeqsOfLeaf(l))>>)

\* C17 witness: every result has been received, the newest first, and one
\* leaf was observed in two transactions.
C17_Witness ==
    /\ l_stage = "collect"
    /\ leafs_rx = {}
    /\ StrictlyDescending(l_arrived)
    /\ \E l \in LeafIndexes : \E s1, s2 \in SeqsOfLeaf(l) : SigOf(s1) # SigOf(s2)

(***************************************************************************)
(* Claims about the audit of a tree, checked under SpecAudit.              *)
(***************************************************************************)
\* C13 as stated: a transaction that cannot be decoded never ends the audit:
\* an audit in which no fetch and no signature search failed ends with Ok,
\* after every signature of the history was pulled and every decoded
\* transaction was reported.
C13_DecodeErrorNeverFatal ==
    (a_stage = "done"
        /\ a_failure \notin {"fetch failed", "signature search failed"})
    => /\ a_result = "Ok"
       /\ a_pulled = a_len
       /\ a_tx = <<>>
       /\ a_map = {}

\* C23 as stated, for the bound `concurrency`: the reorder buffer of
\* read_tree never holds more results than there are workers, however long
\* the history is.
C23_ReorderBufferBoundedByWorkers == Cardinality(a_map) <= concurrency

\* C24: under any interleaving of the workers, every signature the stream
\* has yielded is claimed by exactly one worker, no id is given twice, and
\* the id of a signature is its zero-based position in the stream's order.
C24_IdsArePositions ==
    /\ \A c \in a_claimed : c.id = c.sig - 1
    /\ \A c1, c2 \in a_claimed :
          (c1.sig = c2.sig \/ c1.id = c2.id) => c1 = c2
    /\ (a_failure # "signature search failed"
          => {c.sig : c \in a_claimed} = 1..a_pulled)

\* C24 witness: the audit of four signatures ended with Ok, each worker
\* having claimed two of them, one worker the first and the last.
C24_Witness ==
    /\ a_stage = "done"
    /\ a_result = "Ok"
    /\ a_len = 4
    /\ \E w \in AuditWorkers :
          {c.sig : c \in {x \in a_claimed : x.by = w}} = {1, 4}

\* The ids of the result messages sent: on the channel, in the map of the
\* collector, or printed.
ResultIds == SeqToSet(a_tx) \cup a_map \cup SeqToSet(a_printed)

\* The claims whose worker has ended process_tx and sent the result.
Processed ==
    {c \in a_claimed : ~(aw[c.by].pc = "process" /\ aw[c.by].sig = c.sig)}

\* C32: while no worker has failed, the result messages are those of the
\* claimed signatures whose worker has ended process_tx, one message for
\* each, with the id of the claim, whatever the transaction (with change
\* logs of the tree, failed, without metadata, without a change log of the
\* tree); no message has an id taken by a pull at the end of the stream; and
\* when the collector has ended, what it received are the ids 0..N-1 of a
\* history of N signatures.
C32_OneResultPerClaimedSignature ==
    a_failure = "none" =>
        /\ ResultIds = {c.id : c \in Processed}
        /\ NoDuplicates(a_tx)
        /\ NoDuplicates(a_printed)
        /\ SeqToSet(a_tx) \cap a_map = {}
        /\ SeqToSet(a_tx) \cap SeqToSet(a_printed) = {}
        /\ a_map \cap SeqToSet(a_printed) = {}
        /\ \A id \in ResultIds : id < a_len
        /\ a_map \cup SeqToSet(a_printed) \subseteq 0..(a_pulled - 1)
        /\ a_coll = "done" =>
              /\ a_map \cup SeqToSet(a_printed) = 0..(a_len - 1)
              /\ Len(a_printed) = a_len

\* C32 witness: the audit of a history with a transaction of each kind
\* ended with Ok; the collector received the four ids, and every worker took
\* one more id at the end of the stream.
C32_Witness ==
    /\ a_stage = "done"
    /\ a_result = "Ok"
    /\ {KindOf(s) : s \in 1..a_len} = SeqToSet(TxKinds)
    /\ SeqToSet(a_printed) = 0..(Len(TxKinds) - 1)
    /\ sig_id = a_len + concurrency

\* C33, checked under SpecAuditLive: the audit of a finite history ends;
\* the collector ends only when every worker has returned and the result
\* channel is empty; and an audit in which no call failed ends with Ok
\* after every signature was pulled, every worker returned and the
\* collector printed every result.
C33_AuditTerminates ==
    /\ <>(a_stage = "done")
    /\ [](a_coll = "done" =>
             /\ \A w \in AuditWorkers : aw[w].pc = "returned"
             /\ a_tx = <<>>
             /\ a_map = {})
    /\ []((a_stage = "done" /\ a_failure = "none") =>
             /\ a_result = "Ok"
             /\ a_pulled = a_len
             /\ \A w \in AuditWorkers : aw[w].pc = "returned"
             /\ a_coll = "done"
             /\ SeqToSet(a_printed) = 0..(a_len - 1))

\* C33 witness: an audit of a history of two signatures or more has ended
\* with Ok, every worker returned, the results printed in the order of
\* their ids.
C33_Witness ==
    /\ a_stage = "done"
    /\ a_result = "Ok"
    /\ a_coll = "done"
    /\ a_len >= 2
    /\ \A w \in AuditWorkers : aw[w].pc = "returned"
    /\ a_printed = [i \in 1..a_len |-> i - 1]

(***************************************************************************)
(* Claims about the two mutexes, checked under SpecWorkers.                *)
(***************************************************************************)
\* C27: the guard of the signature receiver is held by the one worker that
\* is between its `lock()` and its `drop(lock)`, and by no worker that is
\* fetching and decoding a transaction or that has returned; the guard of
\* the messenger is held by the one thread that is sending, and by no thread
\* that is taking or fetching a signature; so at most one worker pulls and
\* at most one thread sends at a time.
C27_LocksOnlyAroundQueueSteps ==
    /\ Cardinality({w \in DOMAIN aw : aw[w].pc = "recv"}) <= 1
    /\ rx_sig_lock = None \/ \E w \in DOMAIN aw : rx_sig_lock = <<w>>
    /\ \A w \in DOMAIN aw :
          /\ rx_sig_lock = <<w>> => aw[w].pc = "recv"
          /\ (a_stage = "running" /\ aw[w].pc = "recv") => rx_sig_lock = <<w>>
    /\ Cardinality({w \in DOMAIN fet : fet[w].pc = "send"}) <= 1
    /\ messenger_lock = None \/ \E w \in DOMAIN fet : messenger_lock = <<w>>
    /\ \A w \in DOMAIN fet :
          (messenger_lock = <<w>>) <=> (fet[w].pc = "send")

\* C27 witness: one thread of a repair is sending while another, its
\* transaction fetched and serialized, waits for the messenger.
C27_Witness ==
    \E w1, w2 \in DOMAIN fet :
        /\ fet[w1].pc = "send"
        /\ fet[w2].pc = "lock"
        /\ messenger_lock = <<w1>>

(***************************************************************************)
(* Claims about parse_tx_sequence, checked under SpecParse.                *)
(***************************************************************************)
\* The inner instructions of the transaction, none when it has no list.
InnerOf(tx) ==
    IF tx.inner_instructions = None THEN <<>> ELSE tx.inner_instructions[1]

\* An instruction addressed to the noop program.
ToNoop(ix) == ix.form = "compiled" /\ ix.program = "noop"

\* The change log events of tree t among the instructions addressed to the
\* noop program, in instruction order.
EventsOf(tx, t) ==
    SelectSeq(InnerOf(tx),
              LAMBDA ix : ToNoop(ix) /\ ix.data = "changelog" /\ ix.id = t)

\* C28: a failed or metadata-less transaction yields a map without pairs;
\* when parse_tx_sequence returns a map for a successful transaction, the
\* pairs of each tree are the (seq, leaf) of its change log events among
\* the instructions addressed to the noop program, one pair per event and in
\* instruction order, and no such instruction has data that is not base58;
\* it returns an error only for a successful transaction with a list of
\* inner instructions, on a decoding failure.
C28_OnePairPerChangeLog ==
    xstage = "done" =>
        /\ transaction.status # "ok" =>
              /\ seq_updates.kind = "Ok"
              /\ \A t \in EventTrees : seq_updates.map[t] = <<>>
        /\ (transaction.status = "ok" /\ seq_updates.kind = "Ok") =>
              /\ \A t \in EventTrees :
                    LET events == EventsOf(transaction, t)
                    IN  /\ Len(seq_updates.map[t]) = Len(events)
                        /\ \A i \in 1..Len(events) :
                              seq_updates.map[t][i] =
                                 <<events[i].seq, LeafNodeOf(events[i].path)>>
              /\ \A i \in 1..Len(InnerOf(transaction)) :
                    ToNoop(InnerOf(transaction)[i]) =>
                       InnerOf(transaction)[i].data # "bad_bs58"
        /\ seq_updates.kind = "Err" =>
              /\ transaction.status = "ok"
              /\ transaction.inner_instructions # None
              /\ seq_updates.why = "Instruction" =>
                    \E i \in 1..Len(InnerOf(transaction)) :
                       /\ ToNoop(InnerOf(transaction)[i])
                       /\ InnerOf(transaction)[i].data = "bad_bs58"

\* C28 witness: a successful transaction of three change logs, two of tree
\* A with sequence 2 before sequence 1 and one of tree B, was parsed.
C28_Witness ==
    /\ xstage = "done"
    /\ transaction.status = "ok"
    /\ seq_updates.kind = "Ok"
    /\ Len(seq_updates.map["A"]) = 2
    /\ seq_updates.map["A"][1][1] = 2
    /\ seq_updates.map["A"][2][1] = 1
    /\ seq_updates.map["A"][2][2] # None
    /\ Len(seq_updates.map["B"]) = 1

(***************************************************************************)
(* Claims about the index and the stream, checked under SpecTool.          *)
(***************************************************************************)
\* C29: no step of the tool changes the records of the index (cl_audits,
\* the indexed sequence numbers, the leaf aggregate); the stream changes
\* only by the send of a fetch-and-forward thread that holds the messenger,
\* which appends that thread's transaction; a step of check_tree, of the
\* show-tree workers and collector or of check_tree_leafs leaves the stream
\* as it is, and check_tree never starts a repair.
C29_ChecksNeitherWriteNorSend ==
    [][/\ cl_audits' = cl_audits
       /\ indexed' = indexed
       /\ leafs_db' = leafs_db
       /\ stream' # stream =>
             \E w \in DOMAIN fet :
                /\ fet[w].pc = "send"
                /\ messenger_lock = <<w>>
                /\ Len(stream') = Len(stream) + 1
                /\ SubSeq(stream', 1, Len(stream)) = stream
                /\ stream'[Len(stream')].sig = fet[w].sig
       /\ (auditVars' # auditVars \/ collVars' # collVars
              \/ leafVars' # leafVars) => stream' = stream
       /\ (fixVars' # fixVars /\ command = "check_tree") =>
             /\ stream' = stream
             /\ ~fdriven']_vars

\* C29 witness: a check_tree that found gaps and logged their ranges.
C29_Witness ==
    /\ command = "check_tree"
    /\ fstage = "done"
    /\ fresult = "Ok"
    /\ fprinted # <<>>

(***************************************************************************)
(* Claims about process_instruction, checked under SpecInstruction.        *)
(***************************************************************************)
\* C35 as stated: an instruction with an account index that keys does not
\* have is rejected with DeserializationError before the handler is called,
\* and the bundle handed to the handler has one key for each account of the
\* instruction.
C35_LengthCheckRejectsMissingAccounts ==
    istage = "done" =>
        /\ (\E i \in 1..Len(ix_accounts) : ix_accounts[i] >= Len(keys)) =>
              /\ bundle.kind = "Err"
              /\ bundle.why = "DeserializationError"
              /\ ~bundle.handled
        /\ bundle.handled => Len(bundle.keys) = Len(ix_accounts)

(***************************************************************************)
(* Claims about handle_transaction, checked under SpecIngest.              *)
(***************************************************************************)
\* The instructions of message m that process_instruction ended with Ok on.
Succeeded(m) ==
    {i \in 1..Len(m.instructions) :
        process_instruction(TxnKeys, m.instructions[i].accounts,
                            m.instructions[i].handler_ok).kind = "Ok"}

\* C34: the id of a message of the batch is among the ids handle_transaction
\* returns exactly when the message was read as a transaction and at least
\* one of its instructions was processed with Ok; nothing else is among
\* them; the listener calls ack_msg, once and with these ids, exactly when
\* they are not empty, and calls nothing when recv failed.
C34_AckedIffSomeInstructionSucceeded ==
    /\ tstage \in {"handled", "done"} =>
          /\ \A i \in 1..Len(recv_data) :
                recv_data[i].id \in SeqToSet(txn_ids)
                   <=> (recv_data[i].decodes /\ Succeeded(recv_data[i]) # {})
          /\ SeqToSet(txn_ids) \subseteq 1..Len(recv_data)
    /\ tstage = "done" =>
          /\ (acked = <<>>) <=> (txn_ids = <<>>)
          /\ acked # <<>> => Len(acked) = 1 /\ acked[1].ids = txn_ids
    /\ tstage \in {"recv", "recv failed", "handled"} => acked = <<>>

\* C34 witness: of a batch of two messages, the first with a failed
\* instruction followed by a successful one and the second with a failed
\* instruction only, ack_msg was called with the id of the first alone.
C34_Witness ==
    /\ tstage = "done"
    /\ Len(recv_data) = 2
    /\ Len(recv_data[1].instructions) = 2
    /\ Succeeded(recv_data[1]) = {2}
    /\ Len(recv_data[2].instructions) = 1
    /\ Succeeded(recv_data[2]) = {}
    /\ Len(acked) = 1
    /\ SeqToSet(acked[1].ids) = {recv_data[1].id}

(***************************************************************************)
(* Claims about main, checked under SpecMain.                              *)
(***************************************************************************)
\* C14 as stated: once the loop of a multi-tree command has started, the
\* command ends only after every tree of the file has been processed,
\* whatever happened on the lines before it.
C14_EveryTreeProcessed ==
    (m_stage = "done" /\ m_result # "ErrSetup")
    => \A i \in 1..Len(m_lines) :
          m_lines[i] = "tree"
             => \E j \in 1..Len(m_processed) : m_processed[j].line = i

(***************************************************************************)
(* Claims about check_tree and fix_tree, checked under SpecFix.            *)
(***************************************************************************)
\* The command read the chain and the index summary and went on to the
\* completeness check.
ReachedCompleteness ==
    /\ fstage = "done"
    /\ fresult \notin {"ErrChain", "PanicChain", "ErrIndexQuery", "ErrNotIndexed"}

\* Some sequence number of 1..n has no record in the index.
SomeMissingUpTo(n) == \E s \in 1..n : s \notin IndexedSeqs(cl_audits)

\* C1: fix_tree drives the gap detector and the repair pipeline whenever
\* some sequence number of 1..onChainSeq has no indexed record, an index that
\* only lags the tip included. Stated for an index whose sequence numbers are
\* all positive and for runs in which no query failed.
C1_RepairsWheneverIncomplete ==
    ( /\ ReachedCompleteness
      /\ command = "fix_tree"
      /\ fresult # "ErrMissingQuery"
      /\ IndexedSeqs(cl_audits) \subseteq 1..MaxTreeSeq
      /\ SomeMissingUpTo(chain_seq) )
    => fdriven

\* C7: check_tree and fix_tree report gaps exactly when the number of
\* distinct indexed sequence numbers differs from the largest one; when all
\* indexed sequence numbers lie in 1..maxSeq this is exactly when some number
\* of 1..maxSeq has no record, however many records the others have.
C7_GapsIffDistinctCountDiffers ==
    ReachedCompleteness =>
        LET have == IndexedSeqs(cl_audits)
            maxSeq == SetMax(have)
        IN  /\ ("gaps" \in freport) <=> (Cardinality(have) # maxSeq)
            /\ ("no gaps" \in freport) <=> ("gaps" \notin freport)
            /\ (have \subseteq 1..maxSeq)
                  => (("gaps" \in freport) <=> SomeMissingUpTo(maxSeq))

\* C7 witness: a sequence number is missing while duplicate records bring
\* the row count up to the largest sequence number, and gaps are reported.
C7_Witness ==
    /\ ReachedCompleteness
    /\ IndexedSeqs(cl_audits) \subseteq 1..MaxTreeSeq
    /\ CountRows(cl_audits) = SetMax(IndexedSeqs(cl_audits))
    /\ \E s \in DOMAIN cl_audits : cl_audits[s] > 1
    /\ "gaps" \in freport

\* C20: when the index holds no change record for the tree, check_tree and
\* fix_tree do not end with Ok: they end with an error (or at the failure of
\* the chain read that comes first), log no tip or gap summary, compute no
\* missing list, print no range and do not call the repair pipeline.
C20_NotIndexedIsAnError ==
    (fstage = "done" /\ IndexedSeqs(cl_audits) = {}) =>
        /\ fresult \in {"ErrChain", "PanicChain", "ErrIndexQuery", "ErrNotIndexed"}
        /\ freport = {}
        /\ fmissing = <<>>
        /\ fprinted = <<>>
        /\ ~fdriven

\* C20 witness: fix_tree read a positive on-chain counter, found no record
\* in the index and ended with the not-indexed error.
C20_Witness ==
    /\ fstage = "done"
    /\ command = "fix_tree"
    /\ chain_seq > 0
    /\ IndexedSeqs(cl_audits) = {}
    /\ fresult = "ErrNotIndexed"

(***************************************************************************)
(* Claims about build_seq_ranges, checked under SpecRanges.                *)
(***************************************************************************)
InputSet == SeqToSet(seqs)

\* The indices of the ranges of rs that cover n.
Covering(rs, n) == {i \in 1..Len(rs) : n \in Covered(rs[i])}

\* C2: for an ascending list of distinct integers, the ranges of the
\* contiguity pass partition the input exactly: every input integer lies in
\* exactly one range, and no range contains an integer absent from the input.
C2_ContiguityPartition ==
    rstage = "done" =>
        /\ \A n \in InputSet : Cardinality(Covering(ranges, n)) = 1
        /\ \A i \in 1..Len(ranges) :
              /\ ranges[i][1] <= ranges[i][2]
              /\ Covered(ranges[i]) \subseteq InputSet

\* C2 witness: the pass has produced several ranges, one of them longer than
\* a single number.
C2_Witness ==
    /\ rstage = "done"
    /\ Len(ranges) >= 3
    /\ \E i \in 1..Len(ranges) : ranges[i][1] < ranges[i][2]

\* Whether the contiguity ranges i and i+1 ended up in one joined range.
JoinedTogether(i) ==
    \E j \in 1..Len(joined_ranges) :
        /\ Covered(ranges[i]) \subseteq Covered(joined_ranges[j])
        /\ Covered(ranges[i + 1]) \subseteq Covered(joined_ranges[j])

\* C3: the join pass merges the next contiguity range into the accumulator
\* exactly when accumulator.end + 10 >= next.start, so two consecutive ranges
\* of the result satisfy next.start > previous.end + 10; and the input
\* [1,2,3,7,8,15] yields [(1,15)].
C3_JoinThreshold ==
    rstage = "done" =>
        /\ \A i \in 1..(Len(ranges) - 1) :
              JoinedTogether(i) <=> (ranges[i][2] + 10 >= ranges[i + 1][1])
        /\ \A j \in 1..(Len(joined_ranges) - 1) :
              joined_ranges[j + 1][1] > joined_ranges[j][2] + 10
        /\ (seqs = <<1, 2, 3, 7, 8, 15>>
              => /\ ranges = << <<1, 3>>, <<7, 8>>, <<15, 15>> >>
                 /\ joined_ranges = << <<1, 15>> >>)

\* C3 witness: one pair of contiguity ranges was merged and another was not.
C3_Witness ==
    /\ rstage = "done"
    /\ Len(ranges) = 3
    /\ Len(joined_ranges) = 2

\* The non-input integers around n (n itself not in the input): from the
\* input number below n to the input number above n, both excluded.
RunLength(n) ==
    LET lo == SetMax({m \in InputSet : m < n})
        hi == SetMin({m \in InputSet : m > n})
    IN  hi - lo - 1

\* C4: the returned list is ascending, its ranges are pairwise disjoint with
\* start <= end, every input number lies in exactly one returned range, every
\* range endpoint is an input number, and a covered integer that is not in
\* the input lies in a run of at most 9 consecutive non-input integers
\* between two input numbers.
C4_JoinedRangesShape ==
    rstage = "done" =>
        /\ \A i \in 1..Len(joined_ranges) :
              /\ joined_ranges[i][1] <= joined_ranges[i][2]
              /\ joined_ranges[i][1] \in InputSet
              /\ joined_ranges[i][2] \in InputSet
              /\ \A n \in Covered(joined_ranges[i]) \ InputSet :
                    /\ \E m \in InputSet : m < n
                    /\ \E m \in InputSet : m > n
                    /\ RunLength(n) <= 9
        /\ \A i, j \in 1..Len(joined_ranges) :
              i < j => joined_ranges[i][2] < joined_ranges[j][1]
        /\ \A n \in InputSet : Cardinality(Covering(joined_ranges, n)) = 1

\* C4 witness: a returned range made of several contiguity ranges covers a
\* run of exactly 9 numbers that are not in the input.
C4_Witness ==
    /\ rstage = "done"
    /\ Len(ranges) >= 3
    /\ \E i \in 1..Len(joined_ranges) :
          \E n \in Covered(joined_ranges[i]) \ InputSet : RunLength(n) = 9

\* C5: an empty input gives an empty list, and when the contiguity pass
\* yields a single range the join pass returns that range unchanged.
C5_EmptyAndSingle ==
    rstage = "done" =>
        /\ (seqs = <<>> => joined_ranges = <<>>)
        /\ (Len(ranges) = 1 => joined_ranges = ranges)

\* C5 witness: the contiguity pass yielded one range of several numbers and
\* the join pass returned it.
C5_Witness ==
    /\ rstage = "done"
    /\ Len(ranges) = 1
    /\ ranges[1][1] < ranges[1][2]
    /\ joined_ranges = ranges

====
